---------------------------- MODULE Spec2Model ----------------------------
(***************************************************************************)
(* The chat-to-recommendation pipeline of the place suggestion service:   *)
(* the POST /api/recommendations handler (routes/suggestions.js), the      *)
(* RecommendationService it calls (same file) and PlacesService            *)
(* (places.js).                                                            *)
(*                                                                         *)
(* Encoding of JavaScript values:                                          *)
(*  - an object is a record; a property that is absent or whose value is   *)
(*    undefined is a field outside the record's DOMAIN (JSON.stringify     *)
(*    and property reads cannot tell the two apart);                       *)
(*  - an array is a sequence;                                              *)
(*  - a value returned by JSON.parse is tagged with its shape              *)
(*    ([shape |-> "null"], [shape |-> "object", value |-> record],         *)
(*    [shape |-> "array", value |-> sequence]);                            *)
(*  - a field that may hold null or a scalar holds Null, Num(n) or Str(s); *)
(*  - a string built by a template is the sequence of its pieces;          *)
(*  - matchScore is counted in tenths (5 is 0.5).                          *)
(***************************************************************************)
EXTENDS Integers, Sequences, FiniteSets, TLC

VARIABLES
  messages,            \* req.body.messages after validation
  pc,                  \* position of the handler: which await it is suspended at
  analysis,            \* const analysis (step 1)
  recommendations,     \* const recommendations (step 2)
  strategyIndex,       \* position of the for..of loop over searchStrategies
  searchResults,       \* const searchResults (step 3)
  places,              \* searchNearbyPlaces: the sliced results being enhanced
  tasks,               \* searchNearbyPlaces: state of each enhancePlaceDetails promise
  personalizedPlaces,  \* const personalizedPlaces (step 4)
  activities,          \* const activities (step 5)
  response,            \* what res.json / res.status(500).json sent
  \* history variables: what the calls of the request answered
  returned,            \* per strategy tried: what searchNearbyPlaces returned, or Raise
  fetched,             \* per place being enhanced: what placeDetails answered
  annotations,         \* what JSON.parse returned in personalizePlaceDescriptions
  \* outside the request being followed
  other,               \* the locals of a second request, suspended at an await
  call                 \* a service method called on its own: arguments and outcome

vars == <<messages, pc, analysis, recommendations, strategyIndex, searchResults,
          places, tasks, personalizedPlaces, activities, response, returned,
          fetched, annotations, other, call>>

---------------------------------------------------------------------------
(* Bounds of the model *)

\* the place backend returns at most this many results to one search
MaxResultsPerSearch == 2
\* the place backend returns at most this many results to one request in total
MaxCandidates == 2

---------------------------------------------------------------------------
(* JavaScript values *)

Null == [null |-> TRUE]
Num(n) == [num |-> n]
Str(s) == [str |-> s]

JsonNull == [shape |-> "null"]
JsonObject(o) == [shape |-> "object", value |-> o]
JsonArray(a) == [shape |-> "array", value |-> a]

\* v.k is not undefined (v is an object that has the property)
Has(v, k) == v.shape = "object" /\ k \in DOMAIN v.value
Get(v, k) == v.value[k]

\* the outcome of a call: a returned value or a raised exception
Return(v) == [raised |-> FALSE, value |-> v]
Raise == [raised |-> TRUE]

\* {...a, ...b} where b is an object literal that writes the keys bKeys
\* (a key that b writes with the value undefined reads as undefined afterwards)
Spread(a, b, bKeys) ==
  [k \in ((DOMAIN a) \ bKeys) \cup (DOMAIN b) |-> IF k \in DOMAIN b THEN b[k] ELSE a[k]]

RECURSIVE JoinPieces(_, _)
\* Array.prototype.join over strings, as the sequence of the pieces
JoinPieces(list, sep) ==
  IF Len(list) = 0 THEN <<>>
  ELSE IF Len(list) = 1 THEN <<list[1]>>
  ELSE <<list[1], sep>> \o JoinPieces(Tail(list), sep)

\* variant: slice without its end, slice(0)
SliceWhole(list, n) == list

\* Array.prototype.slice(0, n)
Slice(list, n) == SubSeq(list, 1, IF Len(list) < n THEN Len(list) ELSE n)

---------------------------------------------------------------------------
(* Text: the characters of the string literals of the source and of the    *)
(* chat contents of the model                                              *)

Chars(s) ==
  CASE s = "food" -> <<"f", "o", "o", "d">>
    [] s = "eat" -> <<"e", "a", "t">>
    [] s = "restaurant" -> <<"r", "e", "s", "t", "a", "u", "r", "a", "n", "t">>
    [] s = "dinner" -> <<"d", "i", "n", "n", "e", "r">>
    [] s = "lunch" -> <<"l", "u", "n", "c", "h">>
    [] s = "breakfast" -> <<"b", "r", "e", "a", "k", "f", "a", "s", "t">>
    [] s = "cafe" -> <<"c", "a", "f", "e">>
    [] s = "bar" -> <<"b", "a", "r">>
    [] s = "drink" -> <<"d", "r", "i", "n", "k">>
    [] s = "pizza" -> <<"p", "i", "z", "z", "a">>
    [] s = "burger" -> <<"b", "u", "r", "g", "e", "r">>
    [] s = "sushi" -> <<"s", "u", "s", "h", "i">>
    [] s = "italian" -> <<"i", "t", "a", "l", "i", "a", "n">>
    [] s = "chinese" -> <<"c", "h", "i", "n", "e", "s", "e">>
    [] s = "mexican" -> <<"m", "e", "x", "i", "c", "a", "n">>
    [] s = "thai" -> <<"t", "h", "a", "i">>
    [] s = "indian" -> <<"i", "n", "d", "i", "a", "n">>
    [] s = "fun" -> <<"f", "u", "n">>
    [] s = "activity" -> <<"a", "c", "t", "i", "v", "i", "t", "y">>
    [] s = "entertainment" -> <<"e", "n", "t", "e", "r", "t", "a", "i", "n", "m", "e", "n", "t">>
    [] s = "movie" -> <<"m", "o", "v", "i", "e">>
    [] s = "theater" -> <<"t", "h", "e", "a", "t", "e", "r">>
    [] s = "museum" -> <<"m", "u", "s", "e", "u", "m">>
    [] s = "park" -> <<"p", "a", "r", "k">>
    [] s = "beach" -> <<"b", "e", "a", "c", "h">>
    [] s = "hiking" -> <<"h", "i", "k", "i", "n", "g">>
    [] s = "shopping" -> <<"s", "h", "o", "p", "p", "i", "n", "g">>
    [] s = "mall" -> <<"m", "a", "l", "l">>
    [] s = "game" -> <<"g", "a", "m", "e">>
    [] s = "sports" -> <<"s", "p", "o", "r", "t", "s">>
    [] s = "concert" -> <<"c", "o", "n", "c", "e", "r", "t">>
    [] s = "show" -> <<"s", "h", "o", "w">>
    [] s = "visit" -> <<"v", "i", "s", "i", "t">>
    [] s = "see" -> <<"s", "e", "e">>
    [] s = "tourist" -> <<"t", "o", "u", "r", "i", "s", "t">>
    [] s = "attraction" -> <<"a", "t", "t", "r", "a", "c", "t", "i", "o", "n">>
    [] s = "landmark" -> <<"l", "a", "n", "d", "m", "a", "r", "k">>
    [] s = "monument" -> <<"m", "o", "n", "u", "m", "e", "n", "t">>
    [] s = "gallery" -> <<"g", "a", "l", "l", "e", "r", "y">>
    [] s = "exhibition" -> <<"e", "x", "h", "i", "b", "i", "t", "i", "o", "n">>
    [] s = "zoo" -> <<"z", "o", "o">>
    [] s = "aquarium" -> <<"a", "q", "u", "a", "r", "i", "u", "m">>
    [] s = "theme park" -> <<"t", "h", "e", "m", "e", " ", "p", "a", "r", "k">>
    [] s = "cheap" -> <<"c", "h", "e", "a", "p">>
    [] s = "expensive" -> <<"e", "x", "p", "e", "n", "s", "i", "v", "e">>
    [] s = "budget" -> <<"b", "u", "d", "g", "e", "t">>
    [] s = "affordable" -> <<"a", "f", "f", "o", "r", "d", "a", "b", "l", "e">>
    [] s = "luxury" -> <<"l", "u", "x", "u", "r", "y">>
    [] s = "fancy" -> <<"f", "a", "n", "c", "y">>
    [] s = "casual" -> <<"c", "a", "s", "u", "a", "l">>
    [] s = "formal" -> <<"f", "o", "r", "m", "a", "l">>
    [] s = "Cheap Italian food please" -> <<"C", "h", "e", "a", "p", " ", "I", "t", "a", "l", "i", "a", "n", " ", "f", "o", "o", "d", " ", "p", "l", "e", "a", "s", "e">>
    [] s = "hello there" -> <<"h", "e", "l", "l", "o", " ", "t", "h", "e", "r", "e">>
    [] s = "Fancy theater tonight" -> <<"F", "a", "n", "c", "y", " ", "t", "h", "e", "a", "t", "e", "r", " ", "t", "o", "n", "i", "g", "h", "t">>
    [] s = "visit a museum" -> <<"v", "i", "s", "i", "t", " ", "a", " ", "m", "u", "s", "e", "u", "m">>
    [] s = "ana" -> <<"a", "n", "a">>
    [] s = "ben" -> <<"b", "e", "n">>
    [] s = "barbara" -> <<"b", "a", "r", "b", "a", "r", "a">>
    [] s = ": " -> <<":", " ">>
    [] s = "pizza burger sushi thai" -> <<"p", "i", "z", "z", "a", " ", "b", "u", "r", "g", "e", "r", " ", "s", "u", "s", "h", "i", " ", "t", "h", "a", "i">>
    [] s = "fun movie park beach" -> <<"f", "u", "n", " ", "m", "o", "v", "i", "e", " ", "p", "a", "r", "k", " ", "b", "e", "a", "c", "h">>
    [] s = "affordable luxury" -> <<"a", "f", "f", "o", "r", "d", "a", "b", "l", "e", " ", "l", "u", "x", "u", "r", "y">>
    [] s = "an expensive zoo" -> <<"a", "n", " ", "e", "x", "p", "e", "n", "s", "i", "v", "e", " ", "z", "o", "o">>
    [] s = "che" -> <<"c", "h", "e">>
    [] s = "ap" -> <<"a", "p">>
    [] s = "An exciting action adventure" -> <<"A", "n", " ", "e", "x", "c", "i", "t", "i", "n", "g", " ", "a", "c", "t", "i", "o", "n", " ", "a", "d", "v", "e", "n", "t", "u", "r", "e">>
    [] s = "A hilarious comedy for everyone" -> <<"A", " ", "h", "i", "l", "a", "r", "i", "o", "u", "s", " ", "c", "o", "m", "e", "d", "y", " ", "f", "o", "r", " ", "e", "v", "e", "r", "y", "o", "n", "e">>
    [] s = "adventure" -> <<"a", "d", "v", "e", "n", "t", "u", "r", "e">>
    [] s = "friendship" -> <<"f", "r", "i", "e", "n", "d", "s", "h", "i", "p">>
    [] s = "Comedy" -> <<"C", "o", "m", "e", "d", "y">>
toLowerCaseChar(c) ==
  CASE c = "A" -> "a"
    [] c = "C" -> "c"
    [] c = "F" -> "f"
    [] c = "I" -> "i"
    [] OTHER -> c

RECURSIVE JoinChars(_)
\* Array.prototype.join(' ') over character sequences
JoinChars(list) ==
  IF Len(list) = 0 THEN <<>>
  ELSE IF Len(list) = 1 THEN list[1]
  ELSE list[1] \o <<" ">> \o JoinChars(Tail(list))

\* String.prototype.toLowerCase
toLowerCase(chars) == [i \in 1..Len(chars) |-> toLowerCaseChar(chars[i])]

\* String.prototype.includes
includes(text, keyword) ==
  LET searched == Chars(keyword)
  IN \E i \in 1..(Len(text) - Len(searched) + 1) :
       /\ text[i] = searched[1]
       /\ SubSeq(text, i, i + Len(searched) - 1) = searched

---------------------------------------------------------------------------
(* RecommendationService: the deterministic fallbacks *)

foodKeywords ==
  <<"food", "eat", "restaurant", "dinner", "lunch", "breakfast", "cafe", "bar",
    "drink", "pizza", "burger", "sushi", "italian", "chinese", "mexican", "thai",
    "indian">>
activityKeywords ==
  <<"fun", "activity", "entertainment", "movie", "theater", "museum", "park",
    "beach", "hiking", "shopping", "mall", "game", "sports", "concert", "show">>
attractionKeywords ==
  <<"visit", "see", "tourist", "attraction", "landmark", "monument", "gallery",
    "exhibition", "zoo", "aquarium", "theme park">>
budgetKeywords ==
  <<"cheap", "expensive", "budget", "affordable", "luxury", "fancy", "casual",
    "formal">>

\* variant: the filter keeps every keyword
KeywordMatchesEvery(keywords, chatText) == keywords

\* keywords.filter(keyword => chatText.includes(keyword))
KeywordMatches(keywords, chatText) ==
  SelectSeq(keywords, LAMBDA keyword : includes(chatText, keyword))

\* Array.prototype.includes
Contains(list, item) == \E i \in 1..Len(list) : list[i] = item

\* variant: the text is built as in the prompt of analyzeChatMessages, from
\* `${msg.sender}: ${msg.content}`
ChatTextWithSenders(msgs) ==
  JoinChars([i \in 1..Len(msgs) |->
               toLowerCase(Chars(msgs[i].sender) \o Chars(": ")
                           \o Chars(msgs[i].content))])

\* messages.map(msg => msg.content.toLowerCase()).join(' ')
ChatText(msgs) ==
  JoinChars([i \in 1..Len(msgs) |-> toLowerCase(Chars(msgs[i].content))])

\* variant: the test of the high terms comes first
BudgetHighFirst(budgetMatches) ==
  IF Contains(budgetMatches, "expensive") \/ Contains(budgetMatches, "luxury")
     \/ Contains(budgetMatches, "fancy")
  THEN "high"
  ELSE IF Contains(budgetMatches, "cheap") \/ Contains(budgetMatches, "affordable")
  THEN "low"
  ELSE "medium"

\* "Determine budget preference": let budget
Budget(budgetMatches) ==
  IF Contains(budgetMatches, "cheap") \/ Contains(budgetMatches, "affordable")
  THEN "low"
  ELSE IF Contains(budgetMatches, "expensive") \/ Contains(budgetMatches, "luxury")
          \/ Contains(budgetMatches, "fancy")
  THEN "high"
  ELSE "medium"

fallbackAnalysis(msgs) ==
  LET chatText == ChatText(msgs)
      foodMatches == KeywordMatches(foodKeywords, chatText)
      activityMatches == KeywordMatches(activityKeywords, chatText)
      attractionMatches == KeywordMatches(attractionKeywords, chatText)
      budgetMatches == KeywordMatches(budgetKeywords, chatText)
      hasFood == Len(foodMatches) > 0
      hasActivity == Len(activityMatches) > 0
      hasAttraction == Len(attractionMatches) > 0
      matchedInterests ==
        (IF hasFood THEN <<"food", "dining">> ELSE <<>>)
        \o (IF hasActivity THEN <<"activities", "entertainment">> ELSE <<>>)
        \o (IF hasAttraction THEN <<"sightseeing", "attractions">> ELSE <<>>)
      matchedPlaceTypes ==
        (IF hasFood THEN <<"restaurant", "food">> ELSE <<>>)
        \o (IF hasActivity THEN <<"amusement_park", "entertainment">> ELSE <<>>)
        \o (IF hasAttraction THEN <<"tourist_attraction", "museum">> ELSE <<>>)
      matchedKeywords ==
        (IF hasFood THEN foodMatches ELSE <<>>)
        \o (IF hasActivity THEN activityMatches ELSE <<>>)
        \o (IF hasAttraction THEN attractionMatches ELSE <<>>)
      budget == Budget(budgetMatches)
      atmosphere ==
        IF Contains(budgetMatches, "formal") \/ Contains(budgetMatches, "fancy")
        THEN "formal" ELSE "casual"
      useDefaults == Len(matchedInterests) = 0
      interests ==
        IF useDefaults THEN matchedInterests \o <<"food", "entertainment">>
        ELSE matchedInterests
      placeTypes ==
        IF useDefaults THEN matchedPlaceTypes \o <<"restaurant", "tourist_attraction">>
        ELSE matchedPlaceTypes
      keywords ==
        IF useDefaults THEN matchedKeywords \o <<"fun", "good food">>
        ELSE matchedKeywords
  IN JsonObject(
       [interests |-> IF Len(interests) > 0 THEN interests
                      ELSE <<"food", "entertainment">>,
        placeTypes |-> IF Len(placeTypes) > 0 THEN placeTypes
                       ELSE <<"restaurant", "tourist_attraction">>,
        preferences |->
          [budget |-> budget,
           atmosphere |-> atmosphere,
           cuisine |-> IF hasFood THEN Slice(foodMatches, 3) ELSE <<"any">>,
           activities |-> IF hasActivity THEN Slice(activityMatches, 3)
                          ELSE <<"general">>],
        constraints |-> <<>>,
        groupInfo |-> [size |-> "small group", demographics |-> "mixed ages"],
        keywords |-> IF Len(keywords) > 0 THEN Slice(keywords, 5)
                     ELSE <<"fun", "good food", "interesting">>,
        summary |-> <<"Group looking for ">> \o JoinPieces(interests, " and ")
                    \o <<" based on chat conversation">>])

\* variant: no keyword strategy is added
PlannedStrategiesPlaceTypesOnly(a) ==
  [i \in 1..Len(Get(a, "placeTypes")) |->
     [type |-> "place_type", value |-> Get(a, "placeTypes")[i], priority |-> i,
      reason |-> <<"Based on chat analysis: ">> \o Get(a, "summary")]]

\* variant: the keyword strategy gets the priority of the last place type
PlannedStrategiesSharedPriority(a) ==
  LET placeTypes == Get(a, "placeTypes")
      summary == IF Has(a, "summary") THEN Get(a, "summary") ELSE <<"undefined">>
      byPlaceType ==
        [i \in 1..Len(placeTypes) |->
           [type |-> "place_type", value |-> placeTypes[i], priority |-> i,
            reason |-> <<"Based on chat analysis: ">> \o summary]]
  IN IF Has(a, "keywords") /\ Len(Get(a, "keywords")) > 0
     THEN Append(byPlaceType,
                 [type |-> "keyword", value |-> Get(a, "keywords")[1],
                  priority |-> Len(placeTypes),
                  reason |-> <<"Keyword from chat: ", Get(a, "keywords")[1]>>])
     ELSE byPlaceType

\* the strategies fallbackRecommendations collects before its default
PlannedStrategies(a) ==
  LET placeTypes == Get(a, "placeTypes")
      summary == IF Has(a, "summary") THEN Get(a, "summary") ELSE <<"undefined">>
      byPlaceType ==
        [i \in 1..Len(placeTypes) |->
           [type |-> "place_type", value |-> placeTypes[i], priority |-> i,
            reason |-> <<"Based on chat analysis: ">> \o summary]]
  IN IF Has(a, "keywords") /\ Len(Get(a, "keywords")) > 0
     THEN Append(byPlaceType,
                 [type |-> "keyword", value |-> Get(a, "keywords")[1],
                  priority |-> Len(placeTypes) + 1,
                  reason |-> <<"Keyword from chat: ", Get(a, "keywords")[1]>>])
     ELSE byPlaceType

\* variant: a budget that is neither low nor high is copied
PriceLevelVerbatim(preferences) ==
  IF "budget" \notin DOMAIN preferences THEN "1-3"
  ELSE IF preferences.budget = "low" THEN "1-2"
  ELSE IF preferences.budget = "high" THEN "4-5"
  ELSE preferences.budget

\* filters.priceLevel, from analysis.preferences.budget
PriceLevel(preferences) ==
  LET budgetIs(b) == "budget" \in DOMAIN preferences /\ preferences.budget = b
  IN IF budgetIs("low") THEN "1-2"
     ELSE IF budgetIs("high") THEN "4-5"
     ELSE "1-3"

DefaultStrategy ==
  [type |-> "place_type", value |-> "restaurant", priority |-> 1,
   reason |-> <<"Default recommendation for group dining">>]

\* analysis.placeTypes.forEach and analysis.preferences.budget raise a TypeError
\* when analysis is null, or placeTypes or preferences is undefined
fallbackRecommendations(a) ==
  IF ~Has(a, "placeTypes") \/ ~Has(a, "preferences") THEN Raise
  ELSE
    LET planned == PlannedStrategies(a)
    IN Return(JsonObject(
         [searchStrategies |-> IF Len(planned) = 0 THEN <<DefaultStrategy>> ELSE planned,
          keywords |-> IF Has(a, "keywords") THEN Get(a, "keywords")
                       ELSE <<"fun", "good food">>,
          filters |-> [priceLevel |-> PriceLevel(Get(a, "preferences")),
                       rating |-> "3.5+",
                       openNow |-> TRUE],
          recommendationReason |->
            IF Has(a, "summary") /\ Get(a, "summary") # <<>> THEN Get(a, "summary")
            ELSE <<"General recommendations based on chat conversation">>,
          alternativeOptions |-> IF Has(a, "interests") THEN Get(a, "interests")
                                 ELSE <<"parks", "museums", "shopping">>,
          tips |-> <<"Check opening hours", "Make reservations if needed">>]))

\* variant: the first activity is recommended for the interests of the profile
fallbackActivitiesForInterests(a) ==
  JsonArray(
    <<[activity |-> "Group Dining",
       description |-> "Find a restaurant that can accommodate your group size",
       duration |-> "1-2 hours",
       cost |-> "$$",
       groupSize |-> "2-8 people",
       whyRecommended |-> IF Has(a, "interests") THEN Get(a, "interests") ELSE <<>>,
       tips |-> <<"Make reservations", "Check group discounts">>],
      [activity |-> "Local Attractions",
       description |-> "Visit popular local attractions and landmarks",
       duration |-> "2-4 hours",
       cost |-> "$$$",
       groupSize |-> "2-10 people",
       whyRecommended |-> "Great for group photos and memories",
       tips |-> <<"Check group rates", "Plan for crowds">>]>>)

fallbackActivities(a) ==
  JsonArray(
    <<[activity |-> "Group Dining",
       description |-> "Find a restaurant that can accommodate your group size",
       duration |-> "1-2 hours",
       cost |-> "$$",
       groupSize |-> "2-8 people",
       whyRecommended |-> "Essential for group outings",
       tips |-> <<"Make reservations", "Check group discounts">>],
      [activity |-> "Local Attractions",
       description |-> "Visit popular local attractions and landmarks",
       duration |-> "2-4 hours",
       cost |-> "$$$",
       groupSize |-> "2-10 people",
       whyRecommended |-> "Great for group photos and memories",
       tips |-> <<"Check group rates", "Plan for crowds">>]>>)

---------------------------------------------------------------------------
(* PlacesService (places.js) *)

\* o[k] || fallback, for a number, a nullable scalar, an array and a string
OrNumber(o, k, fallback) == IF k \in DOMAIN o /\ o[k] # 0 THEN o[k] ELSE fallback
OrNull(o, k) ==
  IF k \in DOMAIN o /\ o[k] \notin {Null, Num(0), Str("")} THEN o[k] ELSE Null
OrEmpty(o, k) == IF k \in DOMAIN o THEN o[k] ELSE <<>>
OrString(o, k, fallback) == IF k \in DOMAIN o /\ o[k] # "" THEN o[k] ELSE fallback

formatBasicPlace(place) ==
  LET defaulted ==
        [rating |-> OrNumber(place, "rating", 0),
         user_ratings_total |-> OrNumber(place, "user_ratings_total", 0),
         price_level |-> OrNull(place, "price_level"),
         types |-> OrEmpty(place, "types"),
         photos |-> OrEmpty(place, "photos"),
         business_status |-> OrString(place, "business_status", "OPERATIONAL")]
      copied == {"place_id", "name", "vicinity", "geometry"} \cap DOMAIN place
      address == IF "vicinity" \in DOMAIN place THEN {"formatted_address"} ELSE {}
  IN [k \in DOMAIN defaulted \cup copied \cup address |->
        IF k \in DOMAIN defaulted THEN defaulted[k]
        ELSE IF k = "formatted_address" THEN place.vicinity
        ELSE place[k]]

\* the keys the object literal of formatPlaceDetails writes
PlaceDetailsKeys ==
  {"place_id", "name", "formatted_address", "geometry", "rating",
   "user_ratings_total", "price_level", "types", "photos", "opening_hours",
   "website", "formatted_phone_number", "reviews", "business_status"}

formatPlaceDetails(place) ==
  LET defaulted ==
        [rating |-> OrNumber(place, "rating", 0),
         user_ratings_total |-> OrNumber(place, "user_ratings_total", 0),
         price_level |-> OrNull(place, "price_level"),
         types |-> OrEmpty(place, "types"),
         photos |-> OrEmpty(place, "photos"),
         opening_hours |-> OrNull(place, "opening_hours"),
         website |-> OrNull(place, "website"),
         formatted_phone_number |-> OrNull(place, "formatted_phone_number"),
         reviews |-> OrEmpty(place, "reviews"),
         business_status |-> OrString(place, "business_status", "OPERATIONAL")]
      copied == {"place_id", "name", "formatted_address", "geometry"} \cap DOMAIN place
  IN [k \in DOMAIN defaulted \cup copied |->
        IF k \in DOMAIN defaulted THEN defaulted[k] ELSE place[k]]

\* what client.placeDetails answers: a rejection, or a response with a status
\* and, possibly, a result
getPlaceDetails(reply) ==
  IF reply.kind = "reject" THEN Raise
  ELSE IF reply.status # "OK" THEN Raise
  ELSE IF "result" \notin DOMAIN reply THEN Raise
  ELSE Return(formatPlaceDetails(reply.result))

\* if (place.place_id)
HasPlaceId(place) == "place_id" \in DOMAIN place /\ place.place_id # ""

\* variant: the spread with the operands swapped, { ...details, ...place }
MergeDetailsBasicWins(place, details) ==
  LET merged == Spread(details, place, DOMAIN place)
      original ==
        {k \in {"original_rating", "original_user_ratings_total"} :
           (IF k = "original_rating" THEN "rating" ELSE "user_ratings_total")
             \in DOMAIN place}
  IN [k \in ((DOMAIN merged) \ {"original_rating", "original_user_ratings_total"})
              \cup original |->
        IF k = "original_rating" THEN place.rating
        ELSE IF k = "original_user_ratings_total" THEN place.user_ratings_total
        ELSE merged[k]]

\* the object literal after a successful detail fetch
MergeDetails(place, details) ==
  LET merged == Spread(place, details, PlaceDetailsKeys)
      original ==
        {k \in {"original_rating", "original_user_ratings_total"} :
           (IF k = "original_rating" THEN "rating" ELSE "user_ratings_total")
             \in DOMAIN place}
  IN [k \in ((DOMAIN merged) \ {"original_rating", "original_user_ratings_total"})
              \cup original |->
        IF k = "original_rating" THEN place.rating
        ELSE IF k = "original_user_ratings_total" THEN place.user_ratings_total
        ELSE merged[k]]

\* variant: enhancePlaceDetails without its try/catch: a failed fetch rejects
enhancePlaceDetailsNoCatch(place, reply) ==
  LET details == getPlaceDetails(reply)
  IN IF details.raised THEN Raise ELSE Return(MergeDetails(place, details.value))

\* enhancePlaceDetails once the detail fetch of a place with an identifier settled
enhancePlaceDetails(place, reply) ==
  LET details == getPlaceDetails(reply)
  IN IF details.raised THEN Return(formatBasicPlace(place))
     ELSE Return(MergeDetails(place, details.value))

\* the results of placesNearby after "Limit results"
LimitResults(results, maxResults) ==
  IF maxResults # 0 /\ Len(results) > maxResults THEN Slice(results, maxResults)
  ELSE results

\* searchNearbyPlaces up to the start of the fan-out: the places to enhance,
\* or the error it throws
NearbyPlaces(reply, maxResults) ==
  IF reply.kind = "reject" THEN Raise
  ELSE IF "status" \notin DOMAIN reply THEN Raise
  ELSE IF reply.status \notin {"OK", "ZERO_RESULTS"} THEN Raise
  ELSE Return(LimitResults(OrEmpty(reply, "results"), maxResults))

\* no answer of placeDetails yet, or none asked for
NoReply == [kind |-> "none"]

\* a promise of the fan-out
Fetching == [state |-> "fetching"]
Fulfilled(v) == [state |-> "fulfilled", value |-> v]
Rejected == [state |-> "rejected"]
Settled(outcome) == IF outcome.raised THEN Rejected ELSE Fulfilled(outcome.value)

\* variant: the results are returned as found, without enhancePlaceDetails
StartEnhancingSkipped(list) == [i \in 1..Len(list) |-> Fulfilled(list[i])]

\* places.map(async (place) => await this.enhancePlaceDetails(place)): every call
\* runs up to its first await; a place without an identifier is formatted at once
StartEnhancing(list) ==
  [i \in 1..Len(list) |->
     IF HasPlaceId(list[i]) THEN Fetching ELSE Fulfilled(formatBasicPlace(list[i]))]

\* Promise.all: rejected as soon as one promise is, fulfilled when all are
AllRejected(ts) == \E i \in 1..Len(ts) : ts[i].state = "rejected"
AllFulfilled(ts) == \A i \in 1..Len(ts) : ts[i].state = "fulfilled"
AllValues(ts) == [i \in 1..Len(ts) |-> ts[i].value]

---------------------------------------------------------------------------
(* RecommendationService: the four calls of the text backend *)

\* what model.generateContent answers: a rejection, or a text that JSON.parse
\* accepts (giving the value json) or not
ParseReply(reply) ==
  IF reply.kind = "text" /\ reply.parses THEN Return(reply.json) ELSE Raise

analyzeChatMessages(msgs, reply) ==
  LET parsed == ParseReply(reply)
  IN IF parsed.raised THEN Return(fallbackAnalysis(msgs)) ELSE Return(parsed.value)

generateRecommendations(a, reply) ==
  LET parsed == ParseReply(reply)
  IN IF parsed.raised THEN fallbackRecommendations(a) ELSE Return(parsed.value)

\* p.place_id === place.place_id
SamePlaceId(p, place) ==
  IF "place_id" \in DOMAIN p
  THEN "place_id" \in DOMAIN place /\ p.place_id = place.place_id
  ELSE "place_id" \notin DOMAIN place

\* personalizedPlaces.find(p => p.place_id === place.place_id): the index of the
\* first match, 0 when there is none
FindIndex(found, place) ==
  IF \E i \in 1..Len(found) : SamePlaceId(found[i], place)
  THEN CHOOSE i \in 1..Len(found) :
         /\ SamePlaceId(found[i], place)
         /\ \A j \in 1..(i - 1) : ~SamePlaceId(found[j], place)
  ELSE 0

\* find reads p.place_id of a null element before it reaches a match: a TypeError
FindRaises(found, place) ==
  \E i \in 1..Len(found) :
    /\ found[i] = Null
    /\ \A j \in 1..(i - 1) : ~SamePlaceId(found[j], place)

\* the keys the object literals of personalizePlaceDescriptions write
PersonalizedKeys == {"personalizedDescription", "matchScore", "highlights", "groupAppeal"}

\* the score given to a place without a usable annotation, in tenths
DefaultMatchScore == 5

\* variant: personalized?.matchScore, without the default
MatchScoreOfNoDefault(p) == IF "matchScore" \in DOMAIN p THEN p.matchScore ELSE 0

\* personalized?.matchScore || 0.5
MatchScoreOf(p) ==
  IF "matchScore" \in DOMAIN p /\ p.matchScore # 0 THEN p.matchScore
  ELSE DefaultMatchScore

\* the object literal of the merge; p is the annotation found, or an empty
\* object when find returned undefined
Personalized(place, p) ==
  LET description ==
        IF "personalizedDescription" \in DOMAIN p /\ p.personalizedDescription # ""
        THEN [personalizedDescription |-> p.personalizedDescription]
        ELSE IF "name" \in DOMAIN place
        THEN [personalizedDescription |-> place.name]
        ELSE <<>>
      written ==
        [matchScore |-> MatchScoreOf(p),
         highlights |-> OrEmpty(p, "highlights"),
         groupAppeal |-> OrString(p, "groupAppeal", "Good option for groups")]
  IN Spread(place,
            [k \in DOMAIN written \cup DOMAIN description |->
               IF k \in DOMAIN written THEN written[k] ELSE description[k]],
            PersonalizedKeys)

\* the catch branch: "Return places with basic descriptions"
BasicDescriptions(list) ==
  [i \in 1..Len(list) |->
     Spread(list[i],
            [k \in {"matchScore", "highlights", "groupAppeal"}
                     \cup (IF "name" \in DOMAIN list[i]
                           THEN {"personalizedDescription"} ELSE {}) |->
               CASE k = "matchScore" -> DefaultMatchScore
                 [] k = "highlights" -> <<>>
                 [] k = "groupAppeal" -> "Good option for groups"
                 [] k = "personalizedDescription" -> list[i].name],
            PersonalizedKeys)]

\* variant: the merge keeps only the places that have an annotation
MergeAnnotationsMatchedOnly(list, json) ==
  IF Len(list) = 0 THEN Return(<<>>)
  ELSE IF json.shape # "array" THEN Raise
  ELSE IF \E i \in 1..Len(list) : FindRaises(json.value, list[i]) THEN Raise
  ELSE Return([i \in 1..Len(SelectSeq(list, LAMBDA place : FindIndex(json.value, place) # 0)) |->
                 LET place == SelectSeq(list, LAMBDA q : FindIndex(json.value, q) # 0)[i]
                 IN Personalized(place, json.value[FindIndex(json.value, place)])])

\* the try branch after JSON.parse: places.map over the parsed value
MergeAnnotations(list, json) ==
  IF Len(list) = 0 THEN Return(<<>>)
  ELSE IF json.shape # "array" THEN Raise
  ELSE IF \E i \in 1..Len(list) : FindRaises(json.value, list[i]) THEN Raise
  ELSE Return([i \in 1..Len(list) |->
                 LET index == FindIndex(json.value, list[i])
                 IN Personalized(list[i],
                                 IF index = 0 THEN <<>> ELSE json.value[index])])

personalizePlaceDescriptions(list, a, reply) ==
  LET parsed == ParseReply(reply)
      merged == IF parsed.raised THEN Raise ELSE MergeAnnotations(list, parsed.value)
  IN IF merged.raised THEN Return(BasicDescriptions(list)) ELSE merged

\* variant: generateActivitySuggestions without its try/catch
generateActivitySuggestionsNoCatch(a, reply) == ParseReply(reply)

generateActivitySuggestions(a, reply) ==
  LET parsed == ParseReply(reply)
  IN IF parsed.raised THEN Return(fallbackActivities(a)) ELSE Return(parsed.value)

---------------------------------------------------------------------------
(* The environment: requests and what the backends may answer *)

Message(sender, content) == [sender |-> sender, content |-> content]

\* req.body.messages: a non-empty list of messages with non-empty contents
Requests ==
  {<<Message("ben", "hello there")>>,
   <<Message("ana", "Cheap Italian food please"), Message("ben", "hello there")>>}

\* text that raises in generateContent or in JSON.parse
TextFailures == {[kind |-> "reject"], [kind |-> "text", parses |-> FALSE]}
Json(v) == [kind |-> "text", parses |-> TRUE, json |-> v]

ProfileFromBackend ==
  [interests |-> <<"coffee">>,
   placeTypes |-> <<"cafe">>,
   preferences |-> [budget |-> "medium", atmosphere |-> "casual",
                    cuisine |-> <<"coffee">>, activities |-> <<"chatting">>],
   constraints |-> <<"indoor">>,
   groupInfo |-> [size |-> "4", demographics |-> "students"],
   keywords |-> <<"coffee">>,
   summary |-> <<"Friends looking for coffee">>]

AnalysisReplies ==
  TextFailures \cup
  {Json(JsonNull), Json(JsonObject(<<>>)),
   Json(JsonObject(ProfileFromBackend)),
   Json(JsonObject([ProfileFromBackend EXCEPT !.placeTypes = <<>>, !.keywords = <<>>]))}

StrategyFromBackend(value, priority) ==
  [type |-> "place_type", value |-> value, priority |-> priority,
   reason |-> <<"fits the group">>]

PlanFromBackend ==
  [searchStrategies |-> <<StrategyFromBackend("cafe", 1), StrategyFromBackend("park", 2)>>,
   keywords |-> <<"coffee", "quiet">>,
   filters |-> [priceLevel |-> "1-3", rating |-> "4.0+", openNow |-> TRUE],
   recommendationReason |-> <<"They like coffee">>,
   alternativeOptions |-> <<"tea house">>,
   tips |-> <<"go early">>]

PlanReplies ==
  TextFailures \cup
  {Json(JsonNull), Json(JsonObject(<<>>)),
   Json(JsonObject(PlanFromBackend)),
   Json(JsonObject([PlanFromBackend EXCEPT !.searchStrategies = <<>>])),
   Json(JsonObject([PlanFromBackend EXCEPT !.searchStrategies = <<Null>>])),
   Json(JsonObject([k \in (DOMAIN PlanFromBackend) \ {"keywords"} |-> PlanFromBackend[k]]))}

\* results of placesNearby
RawPlaces ==
  {[place_id |-> "A", name |-> "Cafe A", vicinity |-> "1 Main St", geometry |-> "geoA",
    rating |-> 4, user_ratings_total |-> 12, price_level |-> Num(2),
    types |-> <<"cafe">>],
   [place_id |-> "B", name |-> "Park B", vicinity |-> "2 Hill Rd", geometry |-> "geoB",
    price_level |-> Num(0), business_status |-> "CLOSED_TEMPORARILY"],
   [name |-> "Stall C", vicinity |-> "3 Low Ln"]}

RECURSIVE SeqsUpTo(_, _)
\* the sequences over S of length at most n
SeqsUpTo(S, n) ==
  IF n = 0 THEN {<<>>}
  ELSE SeqsUpTo(S, n - 1)
       \cup {Append(s, x) : s \in {t \in SeqsUpTo(S, n - 1) : Len(t) = n - 1}, x \in S}

SearchReplies ==
  {[kind |-> "reject"],
   [kind |-> "response"],
   [kind |-> "response", status |-> "REQUEST_DENIED"],
   [kind |-> "response", status |-> "ZERO_RESULTS"]}
  \cup {[kind |-> "response", status |-> "OK", results |-> r] :
          r \in SeqsUpTo(RawPlaces, MaxResultsPerSearch)}

\* a result of placeDetails; the fields requested do not include place_id
DetailResult ==
  [name |-> "Cafe A (official)", formatted_address |-> "1 Main Street, Town",
   geometry |-> "geoD", rating |-> 5, website |-> Str("https://a.example"),
   reviews |-> <<"nice">>]

DetailReplies ==
  {[kind |-> "reject"],
   [kind |-> "response", status |-> "NOT_FOUND"],
   [kind |-> "response", status |-> "OK"],
   [kind |-> "response", status |-> "OK", result |-> DetailResult]}

Annotation(id, score) ==
  [place_id |-> id, personalizedDescription |-> "Perfect for this group",
   matchScore |-> score, highlights |-> <<"cosy">>, groupAppeal |-> "Quiet tables"]

PersonalizeReplies ==
  TextFailures \cup
  {Json(JsonNull),
   Json(JsonArray(<<Annotation("A", 0), Annotation("B", 10)>>)),
   Json(JsonArray(<<[place_id |-> "B"], Null>>))}

ActivityReplies ==
  TextFailures \cup
  {Json(JsonNull),
   Json(JsonArray(<<[activity |-> "Coffee tasting", duration |-> "1 hour"]>>))}

---------------------------------------------------------------------------
(* The handler of POST /api/recommendations *)

\* the budget of results shared by the strategies of one request
TotalResults == 20

\* a const of the handler that is not initialised yet
Unassigned == [shape |-> "unassigned"]

NotSent == [status |-> 0]

\* res.status(500).json(...) of the handler's catch
InternalServerError == [status |-> 500, error |-> "Internal server error"]

\* res.json(...) of the handler
Success(a, recs, personalized, acts) ==
  [status |-> 200,
   success |-> TRUE,
   data |-> [analysis |-> a,
             recommendations |-> recs,
             places |-> personalized,
             activities |-> acts,
             metadata |-> [totalPlaces |-> Len(personalized)]]]

\* recommendations.searchStrategies of a plan the loop can iterate
Strategies(recs) == Get(recs, "searchStrategies")

\* the for..of loop reaches strategy i, or ends when there is none
LoopFrom(recs, i) ==
  IF i <= Len(Strategies(recs))
  THEN [pc |-> "search", index |-> i]
  ELSE [pc |-> "personalize", index |-> i]

\* the handler's catch takes over
Thrown == [pc |-> "failed", index |-> 0]

\* variant: the catch of an iteration rethrows
SearchFailedRethrows(recs, i) == Thrown

\* variant: the catch of an iteration leaves the loop
SearchFailedBreaks(recs, i) == LoopFrom(recs, Len(Strategies(recs)) + 1)

\* the catch of iteration i: console.error reads strategy.value, which raises
\* when the strategy is null; otherwise the loop goes on
SearchFailed(recs, i) ==
  IF Strategies(recs)[i] = Null THEN Thrown ELSE LoopFrom(recs, i + 1)

\* the arguments of searchNearbyPlaces: strategy.value and
\* recommendations.keywords.join(' ') raise for a null strategy and for
\* undefined keywords
ArgumentsRaise(recs, i) == Strategies(recs)[i] = Null \/ ~Has(recs, "keywords")

\* maxResults: Math.floor(20 / recommendations.searchStrategies.length)
MaxResults(recs) == TotalResults \div Len(Strategies(recs))

\* variant: a place whose place_id is already among the results is not pushed
PushAllUnique(results, enhanced) ==
  results \o SelectSeq(enhanced,
                       LAMBDA place : ~\E k \in 1..Len(results) :
                                         SamePlaceId(results[k], place))

\* searchResults.push(...places)
PushAll(results, enhanced) == results \o enhanced

\* no second request, no call outside the request
NoRequest == [pc |-> "none"]
NoCall == [method |-> "none"]

Init ==
  /\ other = NoRequest
  /\ call = NoCall
  /\ messages \in Requests
  /\ pc = "analyze"
  /\ analysis = Unassigned
  /\ recommendations = Unassigned
  /\ strategyIndex = 0
  /\ searchResults = <<>>
  /\ places = <<>>
  /\ tasks = <<>>
  /\ personalizedPlaces = <<>>
  /\ activities = Unassigned
  /\ response = NotSent
  /\ returned = <<>>
  /\ fetched = <<>>
  /\ annotations = Unassigned

\* the handler's catch: the error response is sent
Fail ==
  /\ pc' = "done"
  /\ response' = InternalServerError

\* the handler goes on at k
Continue(k) ==
  IF k.pc = "failed" THEN Fail /\ UNCHANGED strategyIndex
  ELSE /\ pc' = k.pc
       /\ strategyIndex' = k.index
       /\ UNCHANGED response

\* Step 1 settles; step 2 is called
AnalyzeReply(replies) ==
  /\ pc = "analyze"
  /\ \E reply \in replies :
       LET result == analyzeChatMessages(messages, reply)
       IN IF result.raised
          THEN Fail /\ UNCHANGED analysis
          ELSE /\ analysis' = result.value
               /\ pc' = "plan"
               /\ UNCHANGED response
  /\ UNCHANGED <<messages, recommendations, strategyIndex, searchResults, places,
                 tasks, personalizedPlaces, activities, returned, fetched,
                 annotations>>
  /\ UNCHANGED <<other, call>>

\* Step 2 settles; the loop of step 3 starts: recommendations.searchStrategies
\* must be iterable
PlanReply(replies) ==
  /\ pc = "plan"
  /\ \E reply \in replies :
       LET result == generateRecommendations(analysis, reply)
       IN IF result.raised
          THEN Fail /\ UNCHANGED <<recommendations, strategyIndex>>
          ELSE /\ recommendations' = result.value
               /\ IF ~Has(result.value, "searchStrategies")
                  THEN Fail /\ UNCHANGED strategyIndex
                  ELSE Continue(LoopFrom(result.value, 1))
  /\ UNCHANGED <<messages, analysis, searchResults, places, tasks,
                 personalizedPlaces, activities, returned, fetched, annotations>>
  /\ UNCHANGED <<other, call>>

\* One iteration of the loop up to the fan-out: the arguments raise, or
\* placesNearby settles and searchNearbyPlaces throws or starts enhancing the
\* limited results
SearchReply(replies) ==
  /\ pc = "search"
  /\ \E reply \in replies :
       LET found == IF ArgumentsRaise(recommendations, strategyIndex) THEN Raise
                    ELSE NearbyPlaces(reply, MaxResults(recommendations))
       IN IF found.raised
          THEN /\ Continue(SearchFailed(recommendations, strategyIndex))
               /\ returned' = Append(returned, Raise)
               /\ UNCHANGED <<places, tasks, fetched>>
          ELSE /\ Len(searchResults) + Len(found.value) <= MaxCandidates
               /\ places' = found.value
               /\ tasks' = StartEnhancing(found.value)
               /\ fetched' = [i \in 1..Len(found.value) |-> NoReply]
               /\ pc' = "enhance"
               /\ UNCHANGED <<strategyIndex, response, returned>>
  /\ UNCHANGED <<messages, analysis, recommendations, searchResults,
                 personalizedPlaces, activities, annotations>>
  /\ UNCHANGED <<other, call>>

\* the detail fetch of one place settles, and with it enhancePlaceDetails
DetailReply(replies) ==
  /\ pc = "enhance"
  /\ \E i \in 1..Len(tasks) :
       /\ tasks[i] = Fetching
       /\ \E reply \in replies :
            /\ tasks' = [tasks EXCEPT ![i] = Settled(enhancePlaceDetails(places[i], reply))]
            /\ fetched' = [fetched EXCEPT ![i] = reply]
  /\ UNCHANGED <<messages, pc, analysis, recommendations, strategyIndex, searchResults,
                 places, personalizedPlaces, activities, response, returned,
                 annotations>>
  /\ UNCHANGED <<other, call>>

\* variant: searchNearbyPlaces returns as soon as one promise is fulfilled, with
\* the places enhanced so far
EnhanceJoinFirstSettled ==
  /\ pc = "enhance"
  /\ \E i \in 1..Len(tasks) : tasks[i].state = "fulfilled"
  /\ LET settled == SelectSeq(tasks, LAMBDA t : t.state = "fulfilled")
     IN /\ searchResults' = PushAll(searchResults, AllValues(settled))
        /\ returned' = Append(returned, Return(AllValues(settled)))
  /\ Continue(LoopFrom(recommendations, strategyIndex + 1))
  /\ places' = <<>>
  /\ tasks' = <<>>
  /\ fetched' = <<>>
  /\ UNCHANGED <<messages, analysis, recommendations, personalizedPlaces, activities,
                 annotations>>
  /\ UNCHANGED <<other, call>>

\* Promise.all settles: searchNearbyPlaces returns the enhanced places, which the
\* loop pushes, or throws, which the loop logs; the loop goes on
EnhanceJoin ==
  /\ pc = "enhance"
  /\ AllRejected(tasks) \/ AllFulfilled(tasks)
  /\ IF AllRejected(tasks)
     THEN /\ Continue(SearchFailed(recommendations, strategyIndex))
          /\ returned' = Append(returned, Raise)
          /\ UNCHANGED searchResults
     ELSE /\ searchResults' = PushAll(searchResults, AllValues(tasks))
          /\ returned' = Append(returned, Return(AllValues(tasks)))
          /\ Continue(LoopFrom(recommendations, strategyIndex + 1))
  /\ places' = <<>>
  /\ tasks' = <<>>
  /\ fetched' = <<>>
  /\ UNCHANGED <<messages, analysis, recommendations, personalizedPlaces, activities,
                 annotations>>
  /\ UNCHANGED <<other, call>>

\* Step 4 settles; step 5 is called
PersonalizeReply(replies) ==
  /\ pc = "personalize"
  /\ \E reply \in replies :
       LET result == personalizePlaceDescriptions(searchResults, analysis, reply)
       IN /\ annotations' = ParseReply(reply)
          /\ IF result.raised
             THEN Fail /\ UNCHANGED personalizedPlaces
             ELSE /\ personalizedPlaces' = result.value
                  /\ pc' = "activities"
                  /\ UNCHANGED response
  /\ UNCHANGED <<messages, analysis, recommendations, strategyIndex, searchResults,
                 places, tasks, activities, returned, fetched>>
  /\ UNCHANGED <<other, call>>

\* Step 5 settles; the response is sent
ActivitiesReply(replies) ==
  /\ pc = "activities"
  /\ \E reply \in replies :
       LET result == generateActivitySuggestions(analysis, reply)
       IN IF result.raised
          THEN Fail /\ UNCHANGED activities
          ELSE /\ activities' = result.value
               /\ response' = Success(analysis, recommendations, personalizedPlaces,
                                      result.value)
               /\ pc' = "done"
  /\ UNCHANGED <<messages, analysis, recommendations, strategyIndex, searchResults,
                 places, tasks, personalizedPlaces, returned, fetched, annotations>>
  /\ UNCHANGED <<other, call>>

Next ==
  \/ AnalyzeReply(AnalysisReplies)
  \/ PlanReply(PlanReplies)
  \/ SearchReply(SearchReplies)
  \/ DetailReply(DetailReplies)
  \/ EnhanceJoin
  \/ PersonalizeReply(PersonalizeReplies)
  \/ ActivitiesReply(ActivityReplies)

Spec == Init /\ [][Next]_vars

\* the same handler while the text backend is down: every call of it raises or
\* answers text that does not parse
NextTextDown ==
  \/ AnalyzeReply(TextFailures)
  \/ PlanReply(TextFailures)
  \/ SearchReply(SearchReplies)
  \/ DetailReply(DetailReplies)
  \/ EnhanceJoin
  \/ PersonalizeReply(TextFailures)
  \/ ActivitiesReply(TextFailures)

SpecTextDown == Init /\ [][NextTextDown]_vars

---------------------------------------------------------------------------
(* Service methods called on their own *)

\* the locals of the handler of POST /api/recommendations
locals == <<messages, pc, analysis, recommendations, strategyIndex, searchResults,
            places, tasks, personalizedPlaces, activities, response, returned,
            fetched, annotations>>

\* no request of POST /api/recommendations is being handled
NoHandler ==
  /\ messages = <<>>
  /\ pc = "idle"
  /\ analysis = Unassigned
  /\ recommendations = Unassigned
  /\ strategyIndex = 0
  /\ searchResults = <<>>
  /\ places = <<>>
  /\ tasks = <<>>
  /\ personalizedPlaces = <<>>
  /\ activities = Unassigned
  /\ response = NotSent
  /\ returned = <<>>
  /\ fetched = <<>>
  /\ annotations = Unassigned

\* the method returns or throws
Returns(outcome) ==
  /\ call.state = "called"
  /\ call' = [k \in DOMAIN call \cup {"outcome"} |->
                IF k = "state" THEN "returned"
                ELSE IF k = "outcome" THEN outcome
                ELSE call[k]]
  /\ UNCHANGED locals
  /\ UNCHANGED other

---------------------------------------------------------------------------
(* FirebaseService (services/firebaseService.js) *)

\* the chat store holds at most this many messages of a chat
MaxStored == 2

\* mockChats of getMockMessages; now is what Date.now() returns
mockChats(now) ==
  [chat1 |->
     <<[sender |-> "User1", text |-> "I love action movies with great fight scenes!",
        timestamp |-> now],
       [sender |-> "User2", text |-> "Yeah, but some comedy would be nice too",
        timestamp |-> now],
       [sender |-> "User3", text |-> "How about something with adventure and humor?",
        timestamp |-> now]>>,
   chat2 |->
     <<[sender |-> "User1", text |-> "I want to watch something scary this weekend",
        timestamp |-> now],
       [sender |-> "User2", text |-> "Horror movies are too intense for me",
        timestamp |-> now],
       [sender |-> "User3",
        text |-> "Maybe a thriller instead? Something suspenseful but not too scary",
        timestamp |-> now]>>,
   chat3 |->
     <<[sender |-> "User1", text |-> "Let's watch a romantic comedy",
        timestamp |-> now],
       [sender |-> "User2", text |-> "I prefer sci-fi movies with great visuals",
        timestamp |-> now],
       [sender |-> "User3",
        text |-> "How about something that has both romance and sci-fi?",
        timestamp |-> now]>>,
   cPStdCj11vcx2ZLW61 |->
     <<[sender |-> "User1", text |-> "What movies should we watch this weekend?",
        timestamp |-> now],
       [sender |-> "User2", text |-> "I like action and adventure films!",
        timestamp |-> now],
       [sender |-> "User3", text |-> "Something with good visuals and story",
        timestamp |-> now]>>]

\* the key of mockChats that the chatId names ('-0cPStdCj11vcx2ZLW61' is not a
\* field name of TLA+)
MockKey(chatId) == IF chatId = "-0cPStdCj11vcx2ZLW61" THEN "cPStdCj11vcx2ZLW61" ELSE chatId

\* the properties an object literal inherits from Object.prototype: a read of
\* mockChats[chatId] finds them when mockChats has no own property chatId
ObjectPrototypeKeys ==
  {"constructor", "hasOwnProperty", "isPrototypeOf", "propertyIsEnumerable",
   "toLocaleString", "toString", "valueOf", "__proto__", "__defineGetter__",
   "__defineSetter__", "__lookupGetter__", "__lookupSetter__"}

\* what a property read returns: an array, or a member of Object.prototype
ArrayValue(list) == [shape |-> "array", value |-> list]
Inherited(key) == [shape |-> "inherited", value |-> key]

\* mockChats[chatId] || mockChats['chat1']
getMockMessages(chatId, now) ==
  IF MockKey(chatId) \in DOMAIN mockChats(now)
  THEN ArrayValue(mockChats(now)[MockKey(chatId)])
  ELSE IF chatId \in ObjectPrototypeKeys THEN Inherited(chatId)
  ELSE ArrayValue(mockChats(now).chat1)

\* Array.prototype.reverse
Reverse(list) == [i \in 1..Len(list) |-> list[Len(list) + 1 - i]]

\* the object pushed for a child of the snapshot
StoredMessage(child, now) ==
  [id |-> child.key,
   sender |-> OrString(child.val, "sender", "Unknown"),
   text |-> IF "text" \in DOMAIN child.val /\ child.val.text # "" THEN child.val.text
            ELSE OrString(child.val, "message", ""),
   timestamp |-> OrNumber(child.val, "timestamp", now)]

\* getChatMessages: store tells whether Firebase is initialised and what the
\* read of chats/<chatId>/messages answers
getChatMessages(chatId, store, now) ==
  IF ~store.initialized THEN Return(getMockMessages(chatId, now))
  ELSE IF store.read.kind = "reject" THEN Return(getMockMessages(chatId, now))
  ELSE IF ~store.read.exists THEN Return(getMockMessages(chatId, now))
  ELSE Return(ArrayValue(Reverse([i \in 1..Len(store.read.children) |->
                                    StoredMessage(store.read.children[i], now)])))

\* req.params.chatId
ChatIds ==
  {"chat1", "chat2", "chat3", "-0cPStdCj11vcx2ZLW61", "chat9", "constructor",
   "toString"}

\* children of chats/<chatId>/messages
StoredChildren ==
  {[key |-> "m1", val |-> [sender |-> "ana", text |-> "pizza tonight?",
                           timestamp |-> 7]],
   [key |-> "m2", val |-> [message |-> "sure"]],
   [key |-> "m3", val |-> [sender |-> "", text |-> ""]]}

\* the states of the store and the answers of once('value')
Stores ==
  {[initialized |-> FALSE],
   [initialized |-> TRUE, read |-> [kind |-> "reject"]],
   [initialized |-> TRUE, read |-> [kind |-> "snapshot", exists |-> FALSE]]}
  \cup {[initialized |-> TRUE,
         read |-> [kind |-> "snapshot", exists |-> TRUE, children |-> c]] :
          c \in SeqsUpTo(StoredChildren, MaxStored) \ {<<>>}}

\* what Date.now() returns
Clock == {1000, 2000}

InitChat ==
  /\ NoHandler
  /\ other = NoRequest
  /\ call \in {[method |-> "getChatMessages", state |-> "called", chatId |-> c,
                store |-> s, now |-> t] : c \in ChatIds, s \in Stores, t \in Clock}

GetChatMessagesReturns ==
  /\ call.method = "getChatMessages"
  /\ Returns(getChatMessages(call.chatId, call.store, call.now))

NextChat == GetChatMessagesReturns

SpecChat == InitChat /\ [][NextChat]_vars

---------------------------------------------------------------------------
(* personalizePlaceDescriptions called on a list of any length *)

\* personalizePlaceDescriptions is called with at most this many places
MaxPersonalized == 6

\* the prompt shows places.slice(0, 5)
PromptLimit == 5
PromptPlaces(list) == Slice(list, PromptLimit)

\* places as searchNearbyPlaces returns them
EnhancedPlaces == {formatBasicPlace(raw) : raw \in RawPlaces}

\* the annotations of the places shown that have an identifier, in their order
AnnotationsOf(shown) ==
  LET identified == SelectSeq(shown, HasPlaceId)
  IN [i \in 1..Len(identified) |-> Annotation(identified[i].place_id, 8)]

\* what the text backend answers to the prompt showing the places: a failure,
\* null, an annotation per place shown, one for the first only, or the
\* annotations followed by null
PersonalizeRepliesTo(shown) ==
  TextFailures \cup
  {Json(JsonNull),
   Json(JsonArray(AnnotationsOf(shown))),
   Json(JsonArray(Slice(AnnotationsOf(shown), 1))),
   Json(JsonArray(Append(AnnotationsOf(shown), Null)))}

InitPersonalize ==
  /\ NoHandler
  /\ other = NoRequest
  /\ \E list \in SeqsUpTo(EnhancedPlaces, MaxPersonalized) :
       \E reply \in PersonalizeRepliesTo(PromptPlaces(list)) :
         call = [method |-> "personalizePlaceDescriptions", state |-> "called",
                 places |-> list, reply |-> reply]

PersonalizeReturns ==
  /\ call.method = "personalizePlaceDescriptions"
  /\ Returns(personalizePlaceDescriptions(call.places, JsonObject(ProfileFromBackend),
                                          call.reply))

NextPersonalize == PersonalizeReturns

SpecPersonalize == InitPersonalize /\ [][NextPersonalize]_vars

---------------------------------------------------------------------------
(* The gather loop on the plans the text backend may produce *)

\* the text backend plans at most this many strategies
MaxStrategies == 21
\* the searches of a request that are followed
MaxSearches == 2

\* a plan of the text backend with the given strategies
PlanWith(strategies) == [PlanFromBackend EXCEPT !.searchStrategies = strategies]

\* plans of 1 to MaxStrategies strategies in priority order, and a plan whose
\* strategies are not in priority order
BackendPlans ==
  {PlanWith([i \in 1..n |-> StrategyFromBackend("cafe", i)]) : n \in 1..MaxStrategies}
  \cup {PlanWith(<<StrategyFromBackend("park", 2), StrategyFromBackend("cafe", 1)>>)}

BackendPlanReplies == {Json(JsonObject(plan)) : plan \in BackendPlans}

\* the handler with the text backend failing except for the plan, followed up to
\* the first MaxSearches searches of the loop
NextPlans ==
  \/ AnalyzeReply(TextFailures)
  \/ PlanReply(BackendPlanReplies)
  \/ strategyIndex <= MaxSearches /\ SearchReply(SearchReplies)
  \/ DetailReply(DetailReplies)
  \/ EnhanceJoin
  \/ PersonalizeReply(TextFailures)
  \/ ActivitiesReply(TextFailures)

SpecPlans == Init /\ [][NextPlans]_vars

---------------------------------------------------------------------------
(* Two requests of POST /api/recommendations in flight *)

\* the locals of the invocation being followed, as a record
Running ==
  [messages |-> messages, pc |-> pc, analysis |-> analysis,
   recommendations |-> recommendations, strategyIndex |-> strategyIndex,
   searchResults |-> searchResults, places |-> places, tasks |-> tasks,
   personalizedPlaces |-> personalizedPlaces, activities |-> activities,
   response |-> response, returned |-> returned, fetched |-> fetched,
   annotations |-> annotations]

\* the locals of an invocation that has just been entered
Entered(msgs) ==
  [messages |-> msgs, pc |-> "analyze", analysis |-> Unassigned,
   recommendations |-> Unassigned, strategyIndex |-> 0, searchResults |-> <<>>,
   places |-> <<>>, tasks |-> <<>>, personalizedPlaces |-> <<>>,
   activities |-> Unassigned, response |-> NotSent, returned |-> <<>>,
   fetched |-> <<>>, annotations |-> Unassigned]

\* variant: searchResults is a variable of the module, shared by the invocations
SwitchSharedResults ==
  /\ other # NoRequest
  /\ other' = Running
  /\ messages' = other.messages
  /\ pc' = other.pc
  /\ analysis' = other.analysis
  /\ recommendations' = other.recommendations
  /\ strategyIndex' = other.strategyIndex
  /\ places' = other.places
  /\ tasks' = other.tasks
  /\ personalizedPlaces' = other.personalizedPlaces
  /\ activities' = other.activities
  /\ response' = other.response
  /\ returned' = other.returned
  /\ fetched' = other.fetched
  /\ annotations' = other.annotations
  /\ UNCHANGED <<searchResults, call>>

\* the invocation being followed is suspended at its await (or has returned) and
\* the event loop runs the other one: each invocation has its own locals, and
\* the services they share (placesService, recommendationService) hold nothing
\* the handler writes
Switch ==
  /\ other # NoRequest
  /\ other' = Running
  /\ messages' = other.messages
  /\ pc' = other.pc
  /\ analysis' = other.analysis
  /\ recommendations' = other.recommendations
  /\ strategyIndex' = other.strategyIndex
  /\ searchResults' = other.searchResults
  /\ places' = other.places
  /\ tasks' = other.tasks
  /\ personalizedPlaces' = other.personalizedPlaces
  /\ activities' = other.activities
  /\ response' = other.response
  /\ returned' = other.returned
  /\ fetched' = other.fetched
  /\ annotations' = other.annotations
  /\ UNCHANGED call

\* a request with the contents of a request of Requests and another sender
SameContents == {<<Message("barbara", "hello there")>>}

\* two requests arrive
InitTwo ==
  /\ call = NoCall
  /\ messages \in Requests
  /\ pc = "analyze"
  /\ analysis = Unassigned
  /\ recommendations = Unassigned
  /\ strategyIndex = 0
  /\ searchResults = <<>>
  /\ places = <<>>
  /\ tasks = <<>>
  /\ personalizedPlaces = <<>>
  /\ activities = Unassigned
  /\ response = NotSent
  /\ returned = <<>>
  /\ fetched = <<>>
  /\ annotations = Unassigned
  /\ \E second \in Requests \cup SameContents : other = Entered(second)

\* what the place backend answers to the searches and detail fetches of the two
\* requests
TwoSearchReplies ==
  {[kind |-> "reject"]}
  \cup {[kind |-> "response", status |-> "OK", results |-> <<raw>>] :
          raw \in {place \in RawPlaces : HasPlaceId(place)}}

TwoDetailReplies == {[kind |-> "response", status |-> "NOT_FOUND"]}

\* the two requests, their steps interleaved at the awaits, with the text
\* backend failing
NextTwo ==
  \/ AnalyzeReply(TextFailures)
  \/ PlanReply(TextFailures)
  \/ SearchReply(TwoSearchReplies)
  \/ DetailReply(TwoDetailReplies)
  \/ EnhanceJoin
  \/ PersonalizeReply(TextFailures)
  \/ ActivitiesReply(TextFailures)
  \/ Switch

SpecTwo == InitTwo /\ [][NextTwo]_vars

---------------------------------------------------------------------------
(* formatBasicPlace called on its own *)

\* a property of a raw result: absent, or present with a value
Absent == [has |-> FALSE]
Present(v) == [has |-> TRUE, value |-> v]

\* the object whose properties are the present ones
ObjectOf(properties) ==
  [k \in {p \in DOMAIN properties : properties[p].has} |-> properties[k].value]

\* results of placesNearby: every field formatBasicPlace defaults is absent or
\* holds one of the values the place backend gives it (a rating from 1 to 5 or
\* 0 when there is none, a price_level from 0, free, to 4, lists, a status)
BasicCandidates ==
  {ObjectOf([place_id |-> Present("A"), name |-> Present("Cafe A"),
             vicinity |-> Present("1 Main St"), geometry |-> Present("geoA"),
             rating |-> rating, user_ratings_total |-> total,
             price_level |-> price, types |-> types, photos |-> photos,
             business_status |-> status]) :
     rating \in {Absent, Present(0), Present(4)},
     total \in {Absent, Present(12)},
     price \in {Absent, Present(Num(0)), Present(Num(2))},
     types \in {Absent, Present(<<>>), Present(<<"cafe">>)},
     photos \in {Absent, Present(<<"photoA">>)},
     status \in {Absent, Present("CLOSED_TEMPORARILY")}}

InitBasic ==
  /\ NoHandler
  /\ other = NoRequest
  /\ \E place \in BasicCandidates :
       call = [method |-> "formatBasicPlace", state |-> "called", place |-> place]

FormatBasicPlaceReturns ==
  /\ call.method = "formatBasicPlace"
  /\ Returns(Return(formatBasicPlace(call.place)))

SpecBasic == InitBasic /\ [][FormatBasicPlaceReturns]_vars

---------------------------------------------------------------------------
(* fallbackAnalysis called on its own *)

\* a chat has at most this many messages
MaxMessages == 2

\* contents of chat messages: without any keyword, with keywords of one or
\* several lists, with more keywords of a list than the profile keeps, with low
\* and high budget terms, and two halves of a keyword
ChatContents ==
  {"hello there", "Cheap Italian food please", "Fancy theater tonight",
   "visit a museum", "pizza burger sushi thai", "fun movie park beach",
   "affordable luxury", "an expensive zoo", "che", "ap"}

\* req.body.messages: the chats of 1 to MaxMessages messages
Chats ==
  {[i \in 1..Len(contents) |-> Message("ana", contents[i])] :
     contents \in SeqsUpTo(ChatContents, MaxMessages) \ {<<>>}}

InitExtract ==
  /\ NoHandler
  /\ other = NoRequest
  /\ \E msgs \in Chats :
       call = [method |-> "fallbackAnalysis", state |-> "called", messages |-> msgs]

FallbackAnalysisReturns ==
  /\ call.method = "fallbackAnalysis"
  /\ Returns(Return(fallbackAnalysis(call.messages)))

SpecExtract == InitExtract /\ [][FallbackAnalysisReturns]_vars

---------------------------------------------------------------------------
(* fallbackRecommendations called on its own *)

\* a profile of the text backend names at most this many place types
MaxPlaceTypes == 2

\* profiles that parse from the text of the backend: any list of place types,
\* keywords undefined, empty or not, and a budget on or off the list low,
\* medium, high, or undefined
BackendProfiles ==
  {ObjectOf([interests |-> Present(<<"coffee">>),
             placeTypes |-> Present(placeTypes),
             preferences |-> Present(ObjectOf([budget |-> budget,
                                               atmosphere |-> Present("casual")])),
             keywords |-> keywords,
             summary |-> Present(<<"Friends looking for coffee">>)]) :
     placeTypes \in SeqsUpTo({"cafe", "park"}, MaxPlaceTypes),
     keywords \in {Absent, Present(<<>>), Present(<<"coffee">>),
                   Present(<<"quiet", "coffee">>)},
     budget \in {Absent, Present("low"), Present("medium"), Present("high"),
                 Present("moderate"), Present("$$")}}

\* the profiles generateRecommendations passes to its fallback: those of the
\* text backend and those of fallbackAnalysis
Profiles ==
  {JsonObject(profile) : profile \in BackendProfiles}
  \cup {fallbackAnalysis(msgs) : msgs \in Chats}

InitPlanner ==
  /\ NoHandler
  /\ other = NoRequest
  /\ \E a \in Profiles :
       call = [method |-> "fallbackRecommendations", state |-> "called", analysis |-> a]

FallbackRecommendationsReturns ==
  /\ call.method = "fallbackRecommendations"
  /\ Returns(fallbackRecommendations(call.analysis))

SpecPlanner == InitPlanner /\ [][FallbackRecommendationsReturns]_vars

---------------------------------------------------------------------------
(* generateActivitySuggestions called on its own *)

\* location.city || 'this location'
Locations == {"Pune", "this location"}

\* the analysis of step 1: a profile, or another value the text backend's text
\* parses to
Analyses == Profiles \cup {JsonNull, JsonObject(<<>>)}

InitActivities ==
  /\ NoHandler
  /\ other = NoRequest
  /\ \E a \in Analyses, location \in Locations, reply \in ActivityReplies :
       call = [method |-> "generateActivitySuggestions", state |-> "called",
               analysis |-> a, location |-> location, reply |-> reply]

\* the location is part of the prompt only
GenerateActivitySuggestionsReturns ==
  /\ call.method = "generateActivitySuggestions"
  /\ Returns(generateActivitySuggestions(call.analysis, call.reply))

SpecActivities == InitActivities /\ [][GenerateActivitySuggestionsReturns]_vars

---------------------------------------------------------------------------
(* personalizePlaceDescriptions on the scores the text backend may give *)

\* matchScore values of the text backend, in tenths: below 0, 0, within the
\* range, 1, above 1
Scores == {0 - 5, 0, 5, 10, 15}

\* an annotation of the place A with the score, or a failure
ScoreReplies ==
  TextFailures \cup {Json(JsonArray(<<Annotation("A", score)>>)) : score \in Scores}

InitScores ==
  /\ NoHandler
  /\ other = NoRequest
  /\ \E list \in SeqsUpTo(EnhancedPlaces, MaxCandidates), reply \in ScoreReplies :
       call = [method |-> "personalizePlaceDescriptions", state |-> "called",
               places |-> list, reply |-> reply]

SpecScores == InitScores /\ [][NextPersonalize]_vars

---------------------------------------------------------------------------
(* The handler on any chat while the text backend is down *)

\* a request arrives with any of the chats
InitChats ==
  /\ other = NoRequest
  /\ call = NoCall
  /\ messages \in Chats
  /\ pc = "analyze"
  /\ analysis = Unassigned
  /\ recommendations = Unassigned
  /\ strategyIndex = 0
  /\ searchResults = <<>>
  /\ places = <<>>
  /\ tasks = <<>>
  /\ personalizedPlaces = <<>>
  /\ activities = Unassigned
  /\ response = NotSent
  /\ returned = <<>>
  /\ fetched = <<>>
  /\ annotations = Unassigned

\* what the place backend answers to a search: a failure, or the place A
ChatSearchReplies ==
  {[kind |-> "reject"]}
  \cup {[kind |-> "response", status |-> "OK", results |-> <<raw>>] :
          raw \in {place \in RawPlaces : HasPlaceId(place) /\ place.place_id = "A"}}

\* the handler with every call of the text backend failing
NextChats ==
  \/ AnalyzeReply(TextFailures)
  \/ PlanReply(TextFailures)
  \/ SearchReply(ChatSearchReplies)
  \/ DetailReply(TwoDetailReplies)
  \/ EnhanceJoin
  \/ PersonalizeReply(TextFailures)
  \/ ActivitiesReply(TextFailures)

SpecChats == InitChats /\ [][NextChats]_vars

---------------------------------------------------------------------------
(* TMDbService (services/tmdbService.js) *)

\* the movie backend returns at most this many movies
MaxMovies == 2
\* the limit passed to getMoviesByPreferences is at most this
MaxLimit == 2

\* getLatestMovies keeps the first 10 results
LatestLimit == 10

\* the sample movies of getLocalMovies
LocalMovies ==
  <<[id |-> 1, title |-> "Sample Action Movie",
     overview |-> "An exciting action adventure"],
    [id |-> 2, title |-> "Sample Comedy Film",
     overview |-> "A hilarious comedy for everyone"]>>

\* getLatestMovies: what axios.get answers is a rejection or a response whose
\* data may hold results
getLatestMovies(reply) ==
  IF reply.kind = "reject" THEN LocalMovies
  ELSE IF "results" \notin DOMAIN reply THEN LocalMovies
  ELSE Slice(reply.results, LatestLimit)

\* String.prototype.includes, for a searched string given by its characters
includesText(text, searched) ==
  \E i \in 1..(Len(text) - Len(searched) + 1) :
    SubSeq(text, i, i + Len(searched) - 1) = searched

\* preferences.genres && preferences.genres.length > 0
genreMatch(preferences) ==
  "genres" \in DOMAIN preferences /\ Len(preferences.genres) > 0

\* movie.overview.toLowerCase() raises a TypeError when overview is undefined;
\* some calls its callback when themes has an element
ThemeMatchRaises(movie, preferences) ==
  /\ "themes" \in DOMAIN preferences
  /\ Len(preferences.themes) > 0
  /\ "overview" \notin DOMAIN movie

\* preferences.themes && preferences.themes.some(...)
themeMatch(movie, preferences) ==
  /\ "themes" \in DOMAIN preferences
  /\ \E j \in 1..Len(preferences.themes) :
       includesText(toLowerCase(Chars(movie.overview)),
                    toLowerCase(Chars(preferences.themes[j])))

getMoviesByPreferences(preferences, limit, reply) ==
  LET allMovies == getLatestMovies(reply)
      filteredMovies ==
        SelectSeq(allMovies,
                  LAMBDA movie : genreMatch(preferences) \/ themeMatch(movie, preferences))
  IN IF \E i \in 1..Len(allMovies) : ThemeMatchRaises(allMovies[i], preferences)
     THEN Raise
     ELSE IF Len(Slice(filteredMovies, limit)) > 0
     THEN Return(Slice(filteredMovies, limit))
     ELSE Return(Slice(allMovies, limit))

\* results of /movie/now_playing: with overviews that match a theme or none,
\* and without an overview
BackendMovies ==
  {[id |-> 11, title |-> "Road Trip", overview |-> "An exciting action adventure"],
   [id |-> 12, title |-> "Laugh Out Loud", overview |-> "A hilarious comedy for everyone"],
   [id |-> 13, title |-> "Untitled"]}

MovieReplies ==
  {[kind |-> "reject"], [kind |-> "response"]}
  \cup {[kind |-> "response", results |-> r] : r \in SeqsUpTo(BackendMovies, MaxMovies)}

\* what analyzeChatForMoviePreferences returns
MoviePreferences ==
  {ObjectOf([genres |-> genres, themes |-> themes, mood |-> Present("light-hearted")]) :
     genres \in {Absent, Present(<<>>), Present(<<"action">>)},
     themes \in {Absent, Present(<<>>), Present(<<"friendship">>),
                 Present(<<"friendship", "Comedy">>)}}

InitMovies ==
  /\ NoHandler
  /\ other = NoRequest
  /\ \E preferences \in MoviePreferences, limit \in 1..MaxLimit, reply \in MovieReplies :
       call = [method |-> "getMoviesByPreferences", state |-> "called",
               preferences |-> preferences, limit |-> limit, reply |-> reply]

GetMoviesByPreferencesReturns ==
  /\ call.method = "getMoviesByPreferences"
  /\ Returns(getMoviesByPreferences(call.preferences, call.limit, call.reply))

SpecMovies == InitMovies /\ [][GetMoviesByPreferencesReturns]_vars

---------------------------------------------------------------------------
(* Properties of the pipeline *)

\* the plan is an object whose searchStrategies are all objects
IsPlan(recs) ==
  /\ Has(recs, "searchStrategies")
  /\ \A i \in 1..Len(Strategies(recs)) : Strategies(recs)[i] # Null

\* the loop of step 3 is over
LoopEnded == pc \in {"personalize", "activities", "done"}

\* step 4 is over
Personalized4 == pc \in {"activities", "done"} /\ response.status # 500

ResponseDataKeys == {"analysis", "recommendations", "places", "activities", "metadata"}

\* C1: a validated request always ends with the success response, which carries
\* analysis, recommendations, places, activities and metadata; the 500 response
\* is never sent
C1_AlwaysSuccess ==
  /\ response.status # 500
  /\ pc = "done" =>
       /\ response.status = 200
       /\ response.success
       /\ DOMAIN response.data = ResponseDataKeys

\* C2: while every call of the text backend fails, each consumer takes its
\* fallback (fallbackAnalysis, fallbackRecommendations, the basic descriptions,
\* fallbackActivities) and the request ends with the success response
C2_TextDownFallbacks ==
  /\ response.status # 500
  /\ pc # "analyze" => analysis = fallbackAnalysis(messages)
  /\ pc \notin {"analyze", "plan"} =>
       Return(recommendations) = fallbackRecommendations(analysis)
  /\ pc \in {"activities", "done"} =>
       personalizedPlaces = BasicDescriptions(searchResults)
  /\ pc = "done" =>
       /\ activities = fallbackActivities(analysis)
       /\ response = Success(analysis, recommendations, personalizedPlaces, activities)

C2_Witness ==
  /\ pc = "done"
  /\ response.status = 200
  /\ Len(response.data.places) > 0
  /\ \E i \in 1..Len(returned) : returned[i].raised

ProfileFields ==
  {"interests", "placeTypes", "preferences", "constraints", "groupInfo", "keywords",
   "summary"}

WellFormedProfile(a) ==
  /\ a.shape = "object"
  /\ ProfileFields \subseteq DOMAIN a.value
  /\ {"budget", "atmosphere", "cuisine", "activities"} \subseteq DOMAIN a.value.preferences
  /\ a.value.preferences.budget \in {"low", "medium", "high"}
  /\ {"size", "demographics"} \subseteq DOMAIN a.value.groupInfo

\* C3: analyzeChatMessages never raises and what it returns is a profile with
\* interests, placeTypes, preferences (budget low, medium or high; atmosphere;
\* cuisine; activities), constraints, groupInfo, keywords and summary
C3_ProfileWellFormed ==
  pc # "analyze" => WellFormedProfile(analysis)

\* C4: the plan generateRecommendations returns has at least one entry in
\* searchStrategies
C4_PlanHasStrategy ==
  recommendations # Unassigned =>
    /\ Has(recommendations, "searchStrategies")
    /\ Len(Strategies(recommendations)) >= 1

\* C5: when every strategy's search raises, the aggregate of step 3 is empty,
\* the error response is not sent, and the request ends with the success
\* response whose places are empty
C5_AllSearchesFail ==
  (/\ recommendations # Unassigned
   /\ IsPlan(recommendations)
   /\ \A i \in 1..Len(returned) : returned[i].raised)
  => /\ searchResults = <<>>
     /\ response.status # 500
     /\ LoopEnded => Len(returned) = Len(Strategies(recommendations))
     /\ pc = "done" => /\ response.status = 200
                       /\ response.data.places = <<>>
                       /\ response.data.metadata.totalPlaces = 0

C5_Witness ==
  /\ pc = "done"
  /\ response.status = 200
  /\ Len(returned) = 3
  /\ \A i \in 1..Len(returned) : returned[i].raised
  /\ response.data.places = <<>>

RECURSIVE Concatenation(_)
\* the lists the strategies returned, in order, the raising ones left out
Concatenation(log) ==
  IF Len(log) = 0 THEN <<>>
  ELSE (IF Head(log).raised THEN <<>> ELSE Head(log).value) \o Concatenation(Tail(log))

\* C6: a strategy whose search raises is skipped and the loop goes on: the
\* aggregate is the concatenation, in strategy order, of the lists of the
\* strategies that did not raise, and every strategy is tried
C6_FailingStrategySkipped ==
  (recommendations # Unassigned /\ IsPlan(recommendations))
  => /\ searchResults = Concatenation(returned)
     /\ response.status # 500
     /\ LoopEnded => Len(returned) = Len(Strategies(recommendations))

C6_Witness ==
  /\ pc = "personalize"
  /\ Len(returned) = 3
  /\ ~returned[1].raised /\ Len(returned[1].value) = 1
  /\ returned[2].raised
  /\ ~returned[3].raised /\ Len(returned[3].value) = 1
  /\ returned[1].value # returned[3].value
  /\ Len(searchResults) = 2

\* C7: the enriched list has the length and the order of the candidates: its
\* i-th element has the place_id of the i-th candidate
C7_EnrichmentKeepsPlaceId ==
  pc = "enhance" =>
    /\ ~AllRejected(tasks)
    /\ Len(tasks) = Len(places)
    /\ \A i \in 1..Len(tasks) :
         tasks[i].state = "fulfilled" => SamePlaceId(tasks[i].value, places[i])

\* the detail fetch answered reply, with which getPlaceDetails throws
DetailFetchFailed(reply) ==
  \/ reply.kind = "reject"
  \/ reply.kind = "response" /\ (reply.status # "OK" \/ "result" \notin DOMAIN reply)

\* C8: a candidate whose detail fetch fails comes out as its basic projection
\* and the enrichment does not fail; every candidate's output depends on its
\* own fetch only, so the siblings' outputs are what they are when that fetch
\* succeeds
C8_FetchFailureIsolated ==
  pc = "enhance" =>
    /\ Len(tasks) = Len(places)
    /\ \A i \in 1..Len(tasks) :
         /\ tasks[i].state # "rejected"
         /\ tasks[i] =
              IF fetched[i] = NoReply
              THEN (IF HasPlaceId(places[i]) THEN Fetching
                    ELSE Fulfilled(formatBasicPlace(places[i])))
              ELSE IF DetailFetchFailed(fetched[i])
              THEN Fulfilled(formatBasicPlace(places[i]))
              ELSE Fulfilled(MergeDetails(places[i], formatPlaceDetails(fetched[i].result)))

C8_Witness ==
  /\ pc = "enhance"
  /\ Len(tasks) = 2
  /\ \E i, j \in 1..Len(tasks) :
       /\ i # j
       /\ fetched[i] # NoReply /\ DetailFetchFailed(fetched[i])
       /\ tasks[i] = Fulfilled(formatBasicPlace(places[i]))
       /\ fetched[j] # NoReply /\ ~DetailFetchFailed(fetched[j])
       /\ tasks[j].state = "fulfilled"

\* C9: personalizePlaceDescriptions returns as many places as it was given, in
\* the same order, each with every field of the candidate unchanged
C9_PersonalizeKeepsCandidates ==
  Personalized4 =>
    /\ Len(personalizedPlaces) = Len(searchResults)
    /\ \A i \in 1..Len(searchResults) :
         \A k \in DOMAIN searchResults[i] :
           /\ k \in DOMAIN personalizedPlaces[i]
           /\ personalizedPlaces[i][k] = searchResults[i][k]

C9_Witness ==
  /\ Personalized4
  /\ Len(searchResults) = 2
  /\ searchResults[1] # searchResults[2]
  /\ ~annotations.raised
  /\ annotations.value.shape = "array"
  /\ \E i \in 1..2 :
       personalizedPlaces[i].personalizedDescription = "Perfect for this group"
  /\ \E i \in 1..2 :
       personalizedPlaces[i].groupAppeal = "Good option for groups"

\* the annotations the text backend gave for the places, when the merge used them
UsableAnnotations ==
  IF annotations.raised \/ annotations.value.shape # "array" THEN <<>>
  ELSE IF \E i \in 1..Len(searchResults) :
            FindRaises(annotations.value.value, searchResults[i]) THEN <<>>
  ELSE annotations.value.value

\* the score the text backend gave to the place, when it gave one; else 0.5
UpstreamScore(place) ==
  LET index == FindIndex(UsableAnnotations, place)
  IN IF index # 0 /\ "matchScore" \in DOMAIN UsableAnnotations[index]
     THEN UsableAnnotations[index].matchScore
     ELSE 5

\* C10: each place's matchScore is the score the text backend gave it whenever
\* it gave one, the lowest score of the scale included, and 0.5 otherwise
C10_MatchScoreIsUpstream ==
  (Personalized4 /\ annotations # Unassigned) =>
    \A i \in 1..Len(personalizedPlaces) :
      /\ "matchScore" \in DOMAIN personalizedPlaces[i]
      /\ personalizedPlaces[i].matchScore = UpstreamScore(searchResults[i])

---------------------------------------------------------------------------
(* Properties of the order of the stages, of the aggregate and of the merge *)

\* a detail fetch of the search in progress is under way or has settled
FetchStarted ==
  \E i \in 1..Len(tasks) : tasks[i] = Fetching \/ fetched[i] # NoReply

C16_NoDeduplication ==
  (recommendations # Unassigned /\ IsPlan(recommendations) /\ pc = "done")
  => /\ response.status = 200
     /\ Len(response.data.places) = Len(Concatenation(returned))
     /\ response.data.metadata.totalPlaces = Len(Concatenation(returned))
     /\ \A k \in 1..Len(response.data.places) :
          SamePlaceId(response.data.places[k], Concatenation(returned)[k])

C16_Witness ==
  /\ pc = "done"
  /\ response.status = 200
  /\ Len(returned) = 3
  /\ \E i, j \in 1..3 :
       /\ i < j
       /\ ~returned[i].raised /\ Len(returned[i].value) = 1
       /\ ~returned[j].raised /\ Len(returned[j].value) = 1
       /\ HasPlaceId(returned[i].value[1])
       /\ SamePlaceId(returned[i].value[1], returned[j].value[1])
  /\ Len(response.data.places) = 2
  /\ HasPlaceId(response.data.places[1])
  /\ SamePlaceId(response.data.places[1], response.data.places[2])

\* out is what enhancePlaceDetails returns for the search result raw
IsEnhancement(raw, out) ==
  \/ out = formatBasicPlace(raw)
  \/ \E reply \in DetailReplies : enhancePlaceDetails(raw, reply) = Return(out)

\* C17: the list given to personalizePlaceDescriptions only ever grows by the
\* outputs of enhancePlaceDetails for the results of the search in progress
C17_OnlyEnhancedPlaces ==
  [][searchResults' # searchResults
       => /\ pc = "enhance"
          /\ Len(tasks) = Len(places)
          /\ \A i \in 1..Len(tasks) :
               /\ tasks[i].state = "fulfilled"
               /\ IsEnhancement(places[i], tasks[i].value)
          /\ searchResults' = searchResults \o AllValues(tasks)]_vars

C17_Witness ==
  /\ pc = "personalize"
  /\ Len(searchResults) = 2
  /\ \E i, j \in 1..2 :
       /\ "website" \in DOMAIN searchResults[i]
       /\ "website" \notin DOMAIN searchResults[j]
       /\ "formatted_address" \in DOMAIN searchResults[j]

\* C20: after a successful detail fetch every field the formatted detail record
\* defines has the detail's value in the enriched place, the fields only the
\* candidate has are kept, and original_rating and original_user_ratings_total
\* are the candidate's rating and user_ratings_total
C20_DetailFieldsWin ==
  pc = "enhance" =>
    \A i \in 1..Len(tasks) :
      (fetched[i] # NoReply /\ ~DetailFetchFailed(fetched[i])) =>
        LET place == places[i]
            details == formatPlaceDetails(fetched[i].result)
            enriched == tasks[i].value
            kept == (DOMAIN place) \ (PlaceDetailsKeys
                       \cup {"original_rating", "original_user_ratings_total"})
        IN /\ tasks[i].state = "fulfilled"
           /\ \A k \in PlaceDetailsKeys :
                IF k \in DOMAIN details
                THEN k \in DOMAIN enriched /\ enriched[k] = details[k]
                ELSE k \notin DOMAIN enriched
           /\ \A k \in kept : k \in DOMAIN enriched /\ enriched[k] = place[k]
           /\ IF "rating" \in DOMAIN place
              THEN /\ "original_rating" \in DOMAIN enriched
                   /\ enriched.original_rating = place.rating
              ELSE "original_rating" \notin DOMAIN enriched
           /\ IF "user_ratings_total" \in DOMAIN place
              THEN /\ "original_user_ratings_total" \in DOMAIN enriched
                   /\ enriched.original_user_ratings_total = place.user_ratings_total
              ELSE "original_user_ratings_total" \notin DOMAIN enriched

C20_Witness ==
  /\ pc = "enhance"
  /\ \E i \in 1..Len(tasks) :
       /\ fetched[i] # NoReply /\ ~DetailFetchFailed(fetched[i])
       /\ tasks[i].state = "fulfilled"
       /\ "vicinity" \in DOMAIN tasks[i].value
       /\ "original_rating" \in DOMAIN tasks[i].value
       /\ tasks[i].value.original_rating # tasks[i].value.rating
       /\ tasks[i].value.name # places[i].name

\* getChatMessages was called while the store was not initialised, held no
\* message of the chat, or failed to read
StoreUnavailable ==
  \/ ~call.store.initialized
  \/ call.store.read.kind = "reject"
  \/ ~call.store.read.exists

\* C19: getChatMessages never raises; when the store is not initialised, holds
\* no message of the chat or fails to read, it returns the mock list of the
\* chatId, or the mock list of 'chat1' when the chatId has none: a non-empty list
C19_MockMessagesOnFailure ==
  (call.method = "getChatMessages" /\ call.state = "returned") =>
    /\ ~call.outcome.raised
    /\ StoreUnavailable =>
         /\ call.outcome.value.shape = "array"
         /\ Len(call.outcome.value.value) > 0
         /\ call.outcome.value.value =
              IF MockKey(call.chatId) \in DOMAIN mockChats(call.now)
              THEN mockChats(call.now)[MockKey(call.chatId)]
              ELSE mockChats(call.now).chat1

\* the place has the defaults of a place without an annotation
HasDefaults(out, place) ==
  /\ {"matchScore", "highlights", "groupAppeal"} \subseteq DOMAIN out
  /\ out.matchScore = 5
  /\ out.highlights = <<>>
  /\ out.groupAppeal = "Good option for groups"
  /\ IF "name" \in DOMAIN place
     THEN "personalizedDescription" \in DOMAIN out
          /\ out.personalizedDescription = place.name
     ELSE "personalizedDescription" \notin DOMAIN out

\* the call of the text backend, or the parse of its text, failed
BackendFailed(reply) == ParseReply(reply).raised

\* the text backend answered no annotation with the place's identifier
NoAnnotationMatches(reply, place) ==
  LET parsed == ParseReply(reply).value
  IN parsed.shape = "array" =>
       \A j \in 1..Len(parsed.value) :
         parsed.value[j] = Null \/ ~SamePlaceId(parsed.value[j], place)

C14_PerStrategyCap ==
  (recommendations # Unassigned /\ IsPlan(recommendations)) =>
    \A i \in 1..Len(returned) :
      ~returned[i].raised =>
        Len(returned[i].value) <= TotalResults \div Len(Strategies(recommendations))

\* C15: the loop searches the strategies in ascending order of priority: the
\* strategy being searched has the lowest priority value of those not searched
\* yet
C15_PriorityOrder ==
  (pc \in {"search", "enhance"} /\ IsPlan(recommendations)) =>
    \A j \in strategyIndex..Len(Strategies(recommendations)) :
      Strategies(recommendations)[strategyIndex].priority
        <= Strategies(recommendations)[j].priority

\* the response of a request run alone, with the text backend failing, whose
\* searches answer what log records
SoloResponse(msgs, log) ==
  LET a == fallbackAnalysis(msgs)
  IN Success(a, fallbackRecommendations(a).value,
             BasicDescriptions(Concatenation(log)), fallbackActivities(a))

\* the invocation has the places of its own searches only, and its response is
\* the one it produces alone
Isolated(ctx) ==
  /\ ctx.searchResults = Concatenation(ctx.returned)
  /\ ctx.pc = "done" => ctx.response = SoloResponse(ctx.messages, ctx.returned)

\* C18: with the steps of two requests interleaved in any order, each request
\* holds only the candidates of its own searches and its response equals the
\* response it produces alone on the same backend answers
C18_RequestsIsolated ==
  other # NoRequest => Isolated(Running) /\ Isolated(other)

C18_Witness ==
  /\ other # NoRequest
  /\ pc = "done"
  /\ response.status = 200
  /\ Len(response.data.places) = 1
  /\ other.pc = "enhance"
  /\ other.strategyIndex = 2
  /\ Len(other.searchResults) = 1
  /\ ~SamePlaceId(other.searchResults[1], response.data.places[1])
  /\ other.messages # messages

\* the contents of the messages of a request
Contents(msgs) == [i \in 1..Len(msgs) |-> msgs[i].content]

\* C12: with the text backend failing, two runs on messages with the same
\* contents get equal profiles from analyzeChatMessages and equal plans from
\* generateRecommendations, whatever the senders, the kind of failure and the
\* calls made in between
C12_FallbacksRepeatable ==
  (other # NoRequest /\ Contents(messages) = Contents(other.messages)) =>
    /\ (analysis # Unassigned /\ other.analysis # Unassigned)
         => analysis = other.analysis
    /\ (recommendations # Unassigned /\ other.recommendations # Unassigned)
         => recommendations = other.recommendations

C12_Witness ==
  /\ other # NoRequest
  /\ messages # other.messages
  /\ Contents(messages) = Contents(other.messages)
  /\ analysis # Unassigned
  /\ recommendations # Unassigned
  /\ other.recommendations = recommendations
  /\ other.analysis = analysis
  /\ other.pc = "done"

---------------------------------------------------------------------------
(* Claims on the projections and the fallbacks *)

\* the default formatBasicPlace gives to an absent field
BasicDefaults ==
  [rating |-> Present(0), user_ratings_total |-> Present(0),
   price_level |-> Present(Null), types |-> Present(<<>>),
   photos |-> Present(<<>>), business_status |-> Present("OPERATIONAL")]

\* C21: the basic projection gives an absent field its default (rating 0,
\* price_level null, types and photos empty, business_status "OPERATIONAL") and
\* carries every present field unchanged, a price_level of 0 included
C21_BasicProjection ==
  (call.method = "formatBasicPlace" /\ call.state = "returned") =>
    /\ ~call.outcome.raised
    /\ \A k \in DOMAIN BasicDefaults :
         /\ k \in DOMAIN call.outcome.value
         /\ IF k \in DOMAIN call.place
            THEN call.outcome.value[k] = call.place[k]
            ELSE call.outcome.value[k] = BasicDefaults[k].value

\* the chat text: the contents joined by a space, in lower case
LowerCasedText(msgs) ==
  toLowerCase(JoinChars([i \in 1..Len(msgs) |-> Chars(msgs[i].content)]))

\* the chat text contains the word
Mentions(msgs, word) == includes(LowerCasedText(msgs), word)

\* the chat text contains a word of the list
MentionsOneOf(msgs, words) == \E i \in 1..Len(words) : Mentions(msgs, words[i])

\* fallbackAnalysis has returned
Extracted == call.method = "fallbackAnalysis" /\ call.state = "returned"

\* the profile it returned
Profile == call.outcome.value.value

\* C22: in the extractor fallback, budget is low when the chat text contains
\* "cheap" or "affordable", otherwise high when it contains "expensive",
\* "luxury" or "fancy", otherwise medium; low wins over high, and budget is
\* always one of the three
C22_BudgetRule ==
  Extracted =>
    /\ Profile.preferences.budget \in {"low", "medium", "high"}
    /\ Profile.preferences.budget =
         IF Mentions(call.messages, "cheap") \/ Mentions(call.messages, "affordable")
         THEN "low"
         ELSE IF \/ Mentions(call.messages, "expensive")
                 \/ Mentions(call.messages, "luxury")
                 \/ Mentions(call.messages, "fancy")
         THEN "high"
         ELSE "medium"

C22_Witness ==
  /\ Extracted
  /\ Len(call.messages) = 2
  /\ Mentions(<<call.messages[1]>>, "fancy")
  /\ Mentions(<<call.messages[2]>>, "cheap")
  /\ Profile.preferences.budget = "low"

\* the interest and place type tags of the categories the chat text matches, in
\* the order food, activity, attraction
TagPairs(msgs, food, activity, attraction) ==
  (IF MentionsOneOf(msgs, foodKeywords) THEN food ELSE <<>>)
  \o (IF MentionsOneOf(msgs, activityKeywords) THEN activity ELSE <<>>)
  \o (IF MentionsOneOf(msgs, attractionKeywords) THEN attraction ELSE <<>>)

\* C23: in the extractor fallback, a chat text that matches no food, activity or
\* attraction keyword gives interests [food, entertainment], placeTypes
\* [restaurant, tourist_attraction] and keywords [fun, good food]; otherwise
\* interests and placeTypes are exactly the tag pairs of the matched categories
\* in the order food, activity, attraction
C23_SeedOrTagPairs ==
  Extracted =>
    IF ~(\/ MentionsOneOf(call.messages, foodKeywords)
         \/ MentionsOneOf(call.messages, activityKeywords)
         \/ MentionsOneOf(call.messages, attractionKeywords))
    THEN /\ Profile.interests = <<"food", "entertainment">>
         /\ Profile.placeTypes = <<"restaurant", "tourist_attraction">>
         /\ Profile.keywords = <<"fun", "good food">>
    ELSE /\ Profile.interests =
              TagPairs(call.messages, <<"food", "dining">>,
                       <<"activities", "entertainment">>,
                       <<"sightseeing", "attractions">>)
         /\ Profile.placeTypes =
              TagPairs(call.messages, <<"restaurant", "food">>,
                       <<"amusement_park", "entertainment">>,
                       <<"tourist_attraction", "museum">>)

C23_Witness ==
  /\ Extracted
  /\ MentionsOneOf(call.messages, foodKeywords)
  /\ ~MentionsOneOf(call.messages, activityKeywords)
  /\ MentionsOneOf(call.messages, attractionKeywords)
  /\ Profile.interests = <<"food", "dining", "sightseeing", "attractions">>
  /\ Profile.placeTypes = <<"restaurant", "food", "tourist_attraction", "museum">>

\* the number of words of the list that the chat text contains
MentionedIn(msgs, words) == Cardinality({i \in 1..Len(words) : Mentions(msgs, words[i])})

\* C24: every profile of the extractor fallback has 1 to 5 keywords and 1 to 3
\* entries in cuisine and in activities; cuisine is ['any'] exactly when no food
\* keyword matched, activities is ['general'] exactly when no activity keyword
\* matched
C24_ListSizes ==
  Extracted =>
    /\ Len(Profile.keywords) \in 1..5
    /\ Len(Profile.preferences.cuisine) \in 1..3
    /\ Len(Profile.preferences.activities) \in 1..3
    /\ Profile.preferences.cuisine = <<"any">>
         <=> ~MentionsOneOf(call.messages, foodKeywords)
    /\ Profile.preferences.activities = <<"general">>
         <=> ~MentionsOneOf(call.messages, activityKeywords)

C24_Witness ==
  /\ Extracted
  /\ MentionedIn(call.messages, foodKeywords) = 4
  /\ MentionedIn(call.messages, activityKeywords) = 4
  /\ Len(Profile.preferences.cuisine) = 3
  /\ Len(Profile.preferences.activities) = 3
  /\ Len(Profile.keywords) = 5

\* fallbackRecommendations has returned or thrown
Planned == call.method = "fallbackRecommendations" /\ call.state = "returned"

\* the profile it was given and the plan it returned
GivenProfile == call.analysis.value
Plan == call.outcome.value.value

\* the profile has a keyword
HasKeyword == "keywords" \in DOMAIN GivenProfile /\ Len(GivenProfile.keywords) > 0

\* C25: for a profile with k placeTypes the planner fallback emits k place_type
\* strategies, the i-th with the i-th placeType and priority i, followed by one
\* keyword strategy with keywords[0] and priority k + 1 exactly when keywords is
\* not empty; with no placeType and no keyword it emits the one strategy
\* {place_type, restaurant, 1}; the priorities are 1..n in array order
C25_PlannedStrategies ==
  Planned =>
    /\ ~call.outcome.raised
    /\ LET placeTypes == GivenProfile.placeTypes
           k == Len(placeTypes)
           strategies == Plan.searchStrategies
       IN /\ \A i \in 1..Len(strategies) : strategies[i].priority = i
          /\ IF k = 0 /\ ~HasKeyword
             THEN /\ Len(strategies) = 1
                  /\ strategies[1].type = "place_type"
                  /\ strategies[1].value = "restaurant"
             ELSE /\ Len(strategies) = k + (IF HasKeyword THEN 1 ELSE 0)
                  /\ \A i \in 1..k : /\ strategies[i].type = "place_type"
                                     /\ strategies[i].value = placeTypes[i]
                  /\ HasKeyword => /\ strategies[k + 1].type = "keyword"
                                   /\ strategies[k + 1].value = GivenProfile.keywords[1]

C25_Witness ==
  /\ Planned
  /\ GivenProfile.placeTypes = <<"park", "cafe">>
  /\ HasKeyword
  /\ GivenProfile.keywords = <<"quiet", "coffee">>
  /\ Len(Plan.searchStrategies) = 3
  /\ Plan.searchStrategies[3].value = "quiet"
  /\ Plan.searchStrategies[3].priority = 3

\* C26: in the planner fallback, filters.priceLevel is "1-2" for the budget low,
\* "4-5" for high and "1-3" for every other budget, off the list included; the
\* budget itself is never copied into the filters; rating is "3.5+" and openNow
\* is true
C26_Filters ==
  Planned =>
    /\ ~call.outcome.raised
    /\ LET preferences == GivenProfile.preferences
           budgetIs(b) == "budget" \in DOMAIN preferences /\ preferences.budget = b
       IN /\ Plan.filters.priceLevel =
               (CASE budgetIs("low") -> "1-2"
                  [] budgetIs("high") -> "4-5"
                  [] OTHER -> "1-3")
          /\ Plan.filters.priceLevel \in {"1-2", "4-5", "1-3"}
          /\ DOMAIN Plan.filters = {"priceLevel", "rating", "openNow"}
          /\ Plan.filters.rating = "3.5+"
          /\ Plan.filters.openNow = TRUE

C26_Witness ==
  /\ Planned
  /\ "budget" \in DOMAIN GivenProfile.preferences
  /\ GivenProfile.preferences.budget = "moderate"
  /\ Plan.filters.priceLevel = "1-3"

\* C27: when the text backend call of generateActivitySuggestions throws or
\* answers text that does not parse, the result is the list of Group Dining and
\* Local Attractions, the same for every profile and location
C27_FixedActivities ==
  (/\ call.method = "generateActivitySuggestions"
   /\ call.state = "returned"
   /\ BackendFailed(call.reply))
  => /\ ~call.outcome.raised
     /\ call.outcome.value.shape = "array"
     /\ Len(call.outcome.value.value) = 2
     /\ call.outcome.value.value[1].activity = "Group Dining"
     /\ call.outcome.value.value[2].activity = "Local Attractions"
     /\ call.outcome.value = fallbackActivities(JsonObject(ProfileFromBackend))

C27_Witness ==
  /\ call.method = "generateActivitySuggestions"
  /\ call.state = "returned"
  /\ BackendFailed(call.reply)
  /\ call.analysis = fallbackAnalysis(<<Message("ana", "visit a museum")>>)
  /\ call.location = "Pune"
  /\ Len(call.outcome.value.value) = 2

\* C28: every element personalizePlaceDescriptions returns has a matchScore
\* from 0 to 1 (0 to 10 tenths), whatever scores the text backend gives
C28_MatchScoreInRange ==
  (call.method = "personalizePlaceDescriptions" /\ call.state = "returned") =>
    /\ ~call.outcome.raised
    /\ \A i \in 1..Len(call.outcome.value) :
         call.outcome.value[i].matchScore \in 0..10

\* the strategies of the given type
OfType(strategies, type) == SelectSeq(strategies, LAMBDA s : s.type = type)

\* C29: when the text backend fails for analyzeChatMessages and for
\* generateRecommendations, the plan has 3 to 7 strategies: 2, 4 or 6
\* place_type strategies followed by exactly one keyword strategy, for every
\* chat; the default restaurant strategy of the planner is not among them
C29_FallbackPlanSize ==
  recommendations # Unassigned =>
    LET strategies == Strategies(recommendations)
        n == Len(strategies)
    IN /\ n \in 3..7
       /\ n - 1 \in {2, 4, 6}
       /\ \A i \in 1..(n - 1) : strategies[i].type = "place_type"
       /\ strategies[n].type = "keyword"
       /\ Len(OfType(strategies, "keyword")) = 1
       /\ \A i \in 1..n : strategies[i] # DefaultStrategy

C29_Witness ==
  /\ pc = "done"
  /\ response.status = 200
  /\ Len(Strategies(recommendations)) = 7
  /\ Len(returned) = 7
  /\ Len(messages) = 2

RECURSIVE IsSubsequence(_, _)
\* the elements of part are elements of whole, in the order of whole
IsSubsequence(part, whole) ==
  IF Len(part) = 0 THEN TRUE
  ELSE IF Len(whole) = 0 THEN FALSE
  ELSE IF Head(part) = Head(whole) THEN IsSubsequence(Tail(part), Tail(whole))
  ELSE IsSubsequence(part, Tail(whole))

\* C30: for any preferences, limit and list of latest movies, movies without an
\* overview included, getMoviesByPreferences does not raise and returns at most
\* limit movies, taken from the latest movies in their order, and at least one
\* when there is a latest movie
C30_MoviesByPreferences ==
  (call.method = "getMoviesByPreferences" /\ call.state = "returned") =>
    /\ ~call.outcome.raised
    /\ Len(call.outcome.value) <= call.limit
    /\ IsSubsequence(call.outcome.value, getLatestMovies(call.reply))
    /\ Len(getLatestMovies(call.reply)) > 0 => Len(call.outcome.value) > 0

=============================================================================
